---- MODULE Spec2Model ----
(***************************************************************************)
(* Verification model of sec-edgar's date-range filing planner             *)
(* (secedgar.core.combo.ComboFilings), of the index sources it drives      *)
(* (secedgar.filings._index.IndexFilings, secedgar.filings.daily) and of   *)
(* the merge of their URL mappings.                                        *)
(*                                                                         *)
(* Calendar dates are proleptic Gregorian ordinals (datetime.date's        *)
(* toordinal()): date(y, m, d) is Ordinal(y, m, d), (a - b).days is a - b  *)
(* and d + timedelta(days=1) is d + 1.                                     *)
(***************************************************************************)
EXTENDS Integers, Sequences, FiniteSets, TLC

VARIABLES
    built,                \* TRUE once ComboFilings.__init__ has returned
    raised,               \* exception raised by the last operation, or "none"
    start_date,           \* ComboFilings.start_date
    end_date,             \* ComboFilings.end_date
    balancing_point,      \* ComboFilings.balancing_point
    entry_filter,         \* ComboFilings.entry_filter (a tag, see FilterAccepts)
    quarterly_date_list,  \* ComboFilings.quarterly_date_list
    daily_date_list,      \* ComboFilings.daily_date_list
    quarterly,            \* ComboFilings.quarterly, the shared quarterly source
    daily,                \* ComboFilings.daily / a DailyFilings instance
    remote,               \* the days for which EDGAR publishes a daily index
    failing,              \* the index files whose request EDGAR answers with a
                          \* failure status until the retries are used up
    disk,                 \* the URLs whose documents are saved on disk
    sub_saves,            \* the sub-calls of the last ComboFilings.save
    requests,             \* the requests the last _get_master_idx_file call
                          \* handed to client.get_response, in order
    daily_save,           \* the arguments of the last DailyFilings.save and
                          \* the inputs it handed to the fetcher
    extracted_files,      \* the names of the files in the extraction directory
    move_queue,           \* per link, the moves _move_to_dest has put on its queue
    fs,                   \* the extraction directories under the target
                          \* directory, each with the files it holds
    callers,              \* the save_filings(download_all=True) calls: where
                          \* each stands and the directory it works in
    pool,                 \* the queue of _unzip or _move_to_dest and the
                          \* position of the call that fills and joins it
    workers,              \* per worker thread of the pool, where it stands
    fetcher,              \* the call of wait_for_download_async in progress
    client,               \* the configuration of one NetworkClient
    getter,               \* the call of NetworkClient.get_response in progress
    filing,               \* one Filing: its dates and its request parameters
    lookup,               \* one CIKLookup and the mapping get_ciks returned
    simple,               \* the date lists of the planner of filings/combo.py
    loop,                 \* the main loop of _recompute, iteration by iteration
    list_of_dicts,        \* sub-call results of the last ComboFilings.get_urls
    ret,                  \* what the last get_urls call returned or raised
    prev_ret,             \* what the ComboFilings.get_urls call right before
                          \* the last one returned or raised
    calls_in_row,         \* consecutive ComboFilings.get_urls calls, capped at 2
    last_call             \* the call ret comes from, "none" once an attribute
                          \* has been assigned since

vars == <<built, raised, start_date, end_date, balancing_point, entry_filter,
          quarterly_date_list, daily_date_list, quarterly, daily, remote,
          failing, disk, sub_saves, requests, daily_save, list_of_dicts, ret,
          prev_ret, calls_in_row, last_call, extracted_files, move_queue, fs,
          callers, pool, workers, fetcher, client, getter, filing, lookup,
          simple, loop>>

planner_vars == <<start_date, end_date, balancing_point, entry_filter,
                  quarterly_date_list, daily_date_list>>

\* the state of the bulk-archive download
bulk_vars == <<extracted_files, move_queue, fs, callers>>

\* what the index sources and the range planner leave alone
pool_vars == <<pool, workers>>

late_vars == <<getter, filing, lookup, simple, loop>>

transfer_vars_but_late == <<bulk_vars, pool_vars, fetcher, client>>

transfer_vars == <<transfer_vars_but_late, late_vars>>

observer_vars == <<sub_saves, requests, daily_save, list_of_dicts, ret, prev_ret,
                   calls_in_row, last_call>>

-----------------------------------------------------------------------------
(* datetime.date                                                           *)

IsLeap(y) == (y % 4 = 0) /\ ((y % 100 # 0) \/ (y % 400 = 0))

DaysInMonth(y, m) ==
    IF m = 2 THEN (IF IsLeap(y) THEN 29 ELSE 28)
    ELSE IF m \in {4, 6, 9, 11} THEN 30 ELSE 31

RECURSIVE DaysBeforeMonth(_, _)
DaysBeforeMonth(y, m) ==
    IF m = 1 THEN 0 ELSE DaysBeforeMonth(y, m - 1) + DaysInMonth(y, m - 1)

DaysBeforeYear(y) ==
    (y - 1) * 365 + ((y - 1) \div 4) - ((y - 1) \div 100) + ((y - 1) \div 400)

\* date(y, m, d)
Ordinal(y, m, d) == DaysBeforeYear(y) + DaysBeforeMonth(y, m) + d

\* date.year
YearOf(o) ==
    LET n0   == o - 1
        n400 == n0 \div 146097
        r400 == n0 % 146097
        n100 == r400 \div 36524
        r100 == r400 % 36524
        n4   == r100 \div 1461
        r4   == r100 % 1461
        n1   == r4 \div 365
        y    == n400 * 400 + n100 * 100 + n4 * 4 + n1 + 1
    IN  IF n1 = 4 \/ n100 = 4 THEN y - 1 ELSE y

\* the month of the n-th day of year y
MonthOfYearDay(y, n) ==
    CHOOSE m \in 1..12 :
        /\ DaysBeforeMonth(y, m) < n
        /\ n <= DaysBeforeMonth(y, m) + DaysInMonth(y, m)

DayOfYear(o, y) == o - DaysBeforeYear(y)

\* date.month
MonthOf(o) == MonthOfYearDay(YearOf(o), DayOfYear(o, YearOf(o)))

DayOfMonth(o, y, m) == o - DaysBeforeYear(y) - DaysBeforeMonth(y, m)

\* date.day
DayOf(o) == DayOfMonth(o, YearOf(o), MonthOf(o))

-----------------------------------------------------------------------------
(* secedgar.utils                                                          *)

get_quarter(d) == ((MonthOf(d) - 1) \div 3) + 1

get_month(quarter) == 3 * (quarter - 1) + 1

add_quarter(year, quarter) ==
    IF quarter = 4 THEN <<year + 1, 1>> ELSE <<year, quarter + 1>>

-----------------------------------------------------------------------------
(* Bounds                                                                  *)

\* The planner is explored on every range inside NumDays consecutive days
\* starting 2019-11-15: the end of 2019 Q4, the year change, the whole of
\* 2020 Q1 and the first days of 2020 Q2.
NumDays == 140

FirstDate == Ordinal(2019, 11, 15)

PlanDates == FirstDate .. (FirstDate + NumDays - 1)

\* balancing_point defaults to 30 (ComboFilings.__init__).
DefaultBalancingPoint == 30

PlanBalancingPoints == {0, DefaultBalancingPoint, 3 * DefaultBalancingPoint}

-----------------------------------------------------------------------------
(* ComboFilings._recompute (secedgar/core/combo.py)                        *)

\* The three predicates _recompute puts in a quarter triple:
\*   "all"       lambda x: True
\*   "ge_start"  lambda x: date(x['date_filed']) >= self.start_date
\*   "le_end"    lambda x: date(x['date_filed']) <= self.end_date
\* The lambdas read self.start_date / self.end_date when they are called, so
\* the bound is the planner's current one, passed as sd / ed.
PredAccepts(pred, date_filed, sd, ed) ==
    CASE pred = "all"      -> TRUE
      [] pred = "ge_start" -> date_filed >= sd
      [] pred = "le_end"   -> date_filed <= ed

\* date(year, get_month(quarter), 1) of a (year, quarter) pair
QuarterStartDate(yq) == Ordinal(yq[1], get_month(yq[2]), 1)

\* date(next_year, get_month(next_quarter), 1)
NextStartQuarterDate(current_date) ==
    QuarterStartDate(add_quarter(YearOf(current_date), get_quarter(current_date)))

\* date(current_year, get_month(current_quarter), 1)
CurrentStartQuarterDate(current_date) ==
    Ordinal(YearOf(current_date), get_month(get_quarter(current_date)), 1)

\* the inner loops: one day entry per date of from .. until - 1
DayEntries(from, until) == [i \in 1..(until - from) |-> from + i - 1]

\* Mutant: the comparison of the head partial quarter reversed.
HeadUsesQuarter_reversed(days_till_next_quarter, bp) == days_till_next_quarter < bp

\* elif days_till_next_quarter > self.balancing_point
HeadUsesQuarter(days_till_next_quarter, bp) == days_till_next_quarter > bp

\* Mutant: the tail partial quarter compared with half the balancing point.
TailUsesQuarter_half(days_till_end, bp) == days_till_end > bp \div 2

\* if days_till_end > self.balancing_point
TailUsesQuarter(days_till_end, bp) == days_till_end > bp

\* Mutant: the "- 1" of the whole-quarter test dropped.
TailIsWholeQuarter_off_by_one(days_till_next_quarter, days_till_end) ==
    days_till_next_quarter = days_till_end

\* if days_till_next_quarter - 1 == days_till_end
TailIsWholeQuarter(days_till_next_quarter, days_till_end) ==
    days_till_next_quarter - 1 = days_till_end

\* Mutant: current_date left one day short of end_date.
AfterTailTriple_day_before(ed) == ed - 1

\* current_date = self.end_date, after the end-filtered triple
AfterTailTriple(ed) == ed

Triple(current_date, pred) ==
    [year |-> YearOf(current_date), quarter |-> get_quarter(current_date),
     pred |-> pred]

\* One iteration of `while current_date <= self.end_date`.
\* st = [current_date, quarterly_date_list, daily_date_list]
RecomputeIteration(st, sd, ed, bp) ==
    LET current_date            == st.current_date
        next_start_quarter_date == NextStartQuarterDate(current_date)
        days_till_next_quarter  == next_start_quarter_date - current_date
        days_till_end           == ed - current_date
        quarter(pred, next)     ==
            [current_date        |-> next,
             quarterly_date_list |-> Append(st.quarterly_date_list,
                                            Triple(current_date, pred)),
             daily_date_list     |-> st.daily_date_list]
        days(until)             ==
            [current_date        |-> until,
             quarterly_date_list |-> st.quarterly_date_list,
             daily_date_list     |-> st.daily_date_list \o
                                     DayEntries(current_date, until)]
    IN  IF days_till_next_quarter <= days_till_end
        THEN IF CurrentStartQuarterDate(current_date) = current_date
             THEN quarter("all", next_start_quarter_date)
             ELSE IF HeadUsesQuarter(days_till_next_quarter, bp)
             THEN quarter("ge_start", next_start_quarter_date)
             ELSE days(next_start_quarter_date)
        ELSE IF TailUsesQuarter(days_till_end, bp)
             THEN IF TailIsWholeQuarter(days_till_next_quarter, days_till_end)
                  THEN quarter("all", next_start_quarter_date)
                  ELSE quarter("le_end", AfterTailTriple(ed))
             ELSE days(ed + 1)

RECURSIVE RecomputeLoop(_, _, _, _)
RecomputeLoop(st, sd, ed, bp) ==
    IF st.current_date <= ed
    THEN RecomputeLoop(RecomputeIteration(st, sd, ed, bp), sd, ed, bp)
    ELSE st

\* The plan _recompute leaves in quarterly_date_list and daily_date_list.
_recompute(sd, ed, bp) ==
    RecomputeLoop([current_date |-> sd, quarterly_date_list |-> <<>>,
                   daily_date_list |-> <<>>], sd, ed, bp)

-----------------------------------------------------------------------------
(* The remote index files                                                  *)

\* The index sources are explored on NumIndexDays consecutive days starting
\* 2020-03-30, two on each side of the quarter boundary 2020-04-01.
NumIndexDays == 4

FirstIndexDate == Ordinal(2020, 3, 30)

IndexDates == FirstIndexDate .. (FirstIndexDate + NumIndexDays - 1)

IndexBalancingPoints == {0, 1}

\* Ranges start on one of these days or on the first day of the quarter.
IndexStartDates == IndexDates \cup {CurrentStartQuarterDate(FirstIndexDate)}

\* Text is a sequence of chunks: a chunk is one of the characters the index
\* pattern tells apart (a digit, "-", "|") or a run of characters without pipe
\* or newline that holds at least one character other than a digit or a dash.
\* An index file is the sequence of its lines.
DigitChars == {"0", "1", "2", "3", "4", "5", "6", "7", "8", "9"}

DateChars == DigitChars \cup {"-"}

DigitChar(n) == <<"0", "1", "2", "3", "4", "5", "6", "7", "8", "9">>[n + 1]

Chars2(n) == <<DigitChar((n \div 10) % 10), DigitChar(n % 10)>>

Chars4(n) == <<DigitChar((n \div 1000) % 10), DigitChar((n \div 100) % 10)>>
             \o Chars2(n)

\* "YYYY-MM-DD", the Date Filed column
IsoDateOf(year, month, day) ==
    Chars4(year) \o <<"-">> \o Chars2(month) \o <<"-">> \o Chars2(day)

IsoDate(d) == IsoDateOf(YearOf(d), MonthOf(d), DayOf(d))

Cik1 == <<"1", "0", "0", "0", "2", "2", "8">>

Cik2 == <<"1", "0", "0", "0", "2", "7", "5">>

\* Caller-supplied entry filters: "all" is the default lambda _: True,
\* "cik1" keeps the entries of one company, "10-K" those of one form type,
\* "never" is lambda _: False and "None" is no filter at all.
EntryFilters == {"all", "cik1"}

UserAccepts(filter, entry) ==
    CASE filter = "all"   -> TRUE
      [] filter = "cik1"  -> entry.cik = Cik1
      [] filter = "10-K"  -> entry.form_type = <<"10-K">>
      [] filter = "never" -> FALSE

\* "|".join(fields)
RECURSIVE PipeJoin(_)
PipeJoin(fields) ==
    IF Len(fields) = 1 THEN fields[1]
    ELSE fields[1] \o <<"|">> \o PipeJoin(Tail(fields))

\* One line CIK|Company Name|Form Type|Date Filed|File Name of an index file.
DatedLine(cik, iso) ==
    PipeJoin(<<cik, <<"ACME CORP">>, <<"10-K">>, iso,
               <<"edgar/data/">> \o cik \o <<"/">> \o iso \o <<".txt">> >>)

IdxLine(cik, d) == DatedLine(cik, IsoDate(d))

\* The lines EDGAR lists for day d: one filing of company 1 every day and
\* one of company 2 on even days.
DayLines(d) ==
    IF d % 2 = 0
    THEN <<IdxLine(Cik1, d), IdxLine(Cik2, d)>>
    ELSE <<IdxLine(Cik1, d)>>

\* The lines every index file starts with.
IdxHeader ==
    << <<"CIK", "|", "Company Name", "|", "Form Type", "|", "Date Filed", "|",
         "Filename">>,
       <<"-", "-", "-", "-">> >>

InQuarter(d, year, quarter) == YearOf(d) = year /\ get_quarter(d) = quarter

Digits2(n) == <<(n \div 10) % 10, n % 10>>

Digits4(n) == <<(n \div 1000) % 10, (n \div 100) % 10>> \o Digits2(n)

\* Mutant: the 8-digit form starts on 1998-04-01.
FormatDate_april(d, year, month, day) ==
    IF year < 1995
    THEN Digits2(month) \o Digits2(day) \o Digits2(year)
    ELSE IF d < Ordinal(1998, 4, 1)
    THEN Digits2(year) \o Digits2(month) \o Digits2(day)
    ELSE Digits4(year) \o Digits2(month) \o Digits2(day)

\* strftime("%m%d%y"), strftime("%y%m%d"), strftime("%Y%m%d")
FormatDate(d, year, month, day) ==
    IF year < 1995
    THEN Digits2(month) \o Digits2(day) \o Digits2(year)
    ELSE IF d < Ordinal(1998, 3, 31)
    THEN Digits2(year) \o Digits2(month) \o Digits2(day)
    ELSE Digits4(year) \o Digits2(month) \o Digits2(day)

\* DailyFilings._get_idx_formatted_date
_get_idx_formatted_date(d) == FormatDate(d, YearOf(d), MonthOf(d), DayOf(d))

\* DailyFilings.idx_filename: "master.{date}.idx"
DailyIdxFilename(d) == <<"master.">> \o _get_idx_formatted_date(d) \o <<".idx">>

\* QuarterlyFilings.idx_filename: "master.idx"
QuarterlyIdxFilename == <<"master.idx">>

RECURSIVE QuarterLines(_, _, _)
QuarterLines(d, year, quarter) ==
    IF d \notin IndexDates THEN <<>>
    ELSE (IF d \in remote /\ InQuarter(d, year, quarter) THEN DayLines(d) ELSE <<>>)
         \o QuarterLines(d + 1, year, quarter)

\* The names in the listing directory `path` = <<kind, year, quarter>>.
RemoteListing(path) ==
    IF path[1] = "daily-index"
    THEN {DailyIdxFilename(d) : d \in {x \in remote : InQuarter(x, path[2], path[3])}}
    ELSE IF \E d \in remote : InQuarter(d, path[2], path[3])
         THEN {QuarterlyIdxFilename} ELSE {}

\* The text of index file `filename` of directory `path`.
RemoteFile(path, filename) ==
    IdxHeader \o
    (IF path[1] = "daily-index"
     THEN DayLines(CHOOSE d \in IndexDates : DailyIdxFilename(d) = filename)
     ELSE QuarterLines(FirstIndexDate, path[2], path[3]))

-----------------------------------------------------------------------------
(* IndexFilings (secedgar/filings/_index.py) and its two variants          *)

\* Optional values: None is <<>>, a value x is <<x>>.
None == <<>>

\* IndexFilings.__init__: nothing fetched, nothing memoized.
\* entry_filter = [pred, user]: the boundary predicate of the quarter triple
\* and the caller's filter (see CombinedFilter).
NewSource(kind, year, quarter, date, filter) ==
    [kind |-> kind, year |-> year, quarter |-> quarter, date |-> date,
     entry_filter |-> filter,
     listings_directory |-> None, master_idx_file |-> None,
     filings_dict |-> None, urls |-> <<>>]

\* DailyFilings.year / DailyFilings.quarter derive from _date.
SourceYear(src) == IF src.kind = "daily-index" THEN YearOf(src.date) ELSE src.year

SourceQuarter(src) ==
    IF src.kind = "daily-index" THEN get_quarter(src.date) ELSE src.quarter

\* DailyFilings.path: "Archives/edgar/daily-index/{year}/QTR{num}/"
SourcePath(src) == <<src.kind, SourceYear(src), SourceQuarter(src)>>

idx_filename(src) ==
    IF src.kind = "daily-index" THEN DailyIdxFilename(src.date)
    ELSE QuarterlyIdxFilename

\* self.entry_filter(entry) when it returns: for the planner's
\* lambda x: f(x) and self.entry_filter(x), f is then lambda x: True (see
\* FilterRaises) and self.entry_filter the caller's filter.
FilterAccepts(filter, entry) ==
    /\ filter.pred = "all"
    /\ UserAccepts(filter.user, entry)

\* The request of one index file: the directory and the file name.
PeriodKey(src) == <<SourcePath(src), idx_filename(src)>>

\* The request of the listing of a directory.
ListingKey(src) == <<SourcePath(src), <<>> >>

\* NetworkClient.get_response: the request is tried retry_count + 1 times and
\* the EDGARQueryError of _validate_response (a 4xx, 429 or 5xx status) is
\* raised when the last try fails too.
get_response_raises(path, filename) == <<path, filename>> \in failing

\* self._listings_directory = self.client.get_response(self.path, ...)
FetchListing(src) ==
    IF get_response_raises(SourcePath(src), <<>>)
    THEN [src |-> src, raised |-> "EDGARQueryError",
          requests |-> <<ListingKey(src)>>]
    ELSE [src |-> [src EXCEPT !.listings_directory =
                     <<RemoteListing(SourcePath(src))>>],
          raised |-> "none", requests |-> <<ListingKey(src)>>]

\* IndexFilings._get_listings_directory: [src, raised, requests]
_get_listings_directory(src, update_cache) ==
    IF src.listings_directory = None \/ update_cache
    THEN FetchListing(src)
    ELSE [src |-> src, raised |-> "none", requests |-> <<>>]

\* self._master_idx_file = self.client.get_response(master_idx_url, ...).text
FetchIndexFile(listed, filename, issued) ==
    IF get_response_raises(SourcePath(listed), filename)
    THEN [src |-> listed, raised |-> "EDGARQueryError",
          requests |-> Append(issued, <<SourcePath(listed), filename>>)]
    ELSE [src |-> [listed EXCEPT !.master_idx_file =
                     <<RemoteFile(SourcePath(listed), filename)>>],
          raised |-> "none",
          requests |-> Append(issued, <<SourcePath(listed), filename>>)]

\* Mutant: the index file is requested whatever the listing holds.
LocateIndexFile_unchecked(got, filename) ==
    IF got.raised # "none" THEN got
    ELSE FetchIndexFile(got.src, filename, got.requests)

\* the `if self.idx_filename in ... .text` of _get_master_idx_file, once
\* _get_listings_directory has answered `got`: [src, raised, requests]
LocateIndexFile(got, filename) ==
    IF got.raised # "none" THEN got
    ELSE IF filename \in got.src.listings_directory[1]
         THEN FetchIndexFile(got.src, filename, got.requests)
         ELSE [src |-> got.src, raised |-> "EDGARQueryError",
               requests |-> got.requests]

\* IndexFilings._get_master_idx_file: [src, raised, requests]
_get_master_idx_file(src, update_cache) ==
    IF src.master_idx_file = None \/ update_cache
    THEN LocateIndexFile(_get_listings_directory(src, FALSE), idx_filename(src))
    ELSE [src |-> src, raised |-> "none", requests |-> <<>>]

\* The positions of sep in s.
Positions(s, sep) == {i \in DOMAIN s : s[i] = sep}

AllIn(s, from, to, chars) == \A i \in from..to : s[i] \in chars

\* r'^[0-9]+[|].+[|].+[|][0-9\-]+[|].+$' on one line: p1..p4 are the pipes
\* the four [|] match; "." matches a pipe too, so the two .+ between p1 and
\* p3 and the .+ after p4 may span pipes.
MatchesAt(line, p1, p2, p3, p4) ==
    /\ 1 < p1 /\ AllIn(line, 1, p1 - 1, DigitChars)
    /\ p1 + 1 < p2
    /\ p2 + 1 < p3
    /\ p3 + 1 < p4 /\ AllIn(line, p3 + 1, p4 - 1, DateChars)
    /\ p4 < Len(line)

MatchesPipes(line, pipes) ==
    \E p1 \in pipes, p2 \in pipes, p3 \in pipes, p4 \in pipes :
        MatchesAt(line, p1, p2, p3, p4)

EntryPattern(line) == MatchesPipes(line, Positions(line, "|"))

\* re.findall(pattern, idx_file, re.MULTILINE): the matching lines, in order
findall(idx_file) == SelectSeq(idx_file, EntryPattern)

SplitAt(s, p) == <<SubSeq(s, 1, p - 1), SubSeq(s, p + 1, Len(s))>>

\* entry.split("|")
RECURSIVE split(_, _)
split(s, sep) ==
    IF Positions(s, sep) = {} THEN <<s>>
    ELSE <<SplitAt(s, CHOOSE p \in Positions(s, sep) :
                         \A q \in Positions(s, sep) : p <= q)[1]>>
         \o split(SplitAt(s, CHOOSE p \in Positions(s, sep) :
                                \A q \in Positions(s, sep) : p <= q)[2], sep)

\* namedtuple("FilingEntry", [...])
FilingEntryFields ==
    <<"cik", "company_name", "form_type", "date_filed", "file_name", "path">>

\* FilingEntry(*fields, path=path) takes one positional value per field
\* before path; any other number is a TypeError.
FilingEntryRaises(fields) == Len(fields) + 1 # Len(FilingEntryFields)

\* path = "Archives/{file_name}".format(file_name=fields[-1])
ArchivesPath(fields) == <<"Archives/">> \o fields[Len(fields)]

\* FilingEntry(*fields, path=path)
FilingEntry(fields, path) ==
    [cik |-> fields[1], company_name |-> fields[2], form_type |-> fields[3],
     date_filed |-> fields[4], file_name |-> fields[5], path |-> path]

\* self.entry_filter is None
FilterIsNone(filter) == filter.user = "None"

\* lambda x: date(x['date_filed']) >= self.start_date (and <= self.end_date):
\* date() of one value that is no pickled state raises TypeError, whatever
\* x['date_filed'] is; lambda x: True raises nothing.
FilterRaises(filter) == ~FilterIsNone(filter) /\ filter.pred # "all"

\* Add new filing entry to CIK's list
AddEntry(filings_dict, entry) ==
    IF entry.cik \in DOMAIN filings_dict
    THEN [filings_dict EXCEPT ![entry.cik] = Append(@, entry)]
    ELSE [c \in DOMAIN filings_dict \cup {entry.cik} |->
            IF c = entry.cik THEN <<entry>> ELSE filings_dict[c]]

\* Mutant: the filter is not consulted.
KeepEntry_unfiltered(filings_dict, filter, entry) == AddEntry(filings_dict, entry)

\* if self.entry_filter is not None and not self.entry_filter(entry): continue
KeepEntry(filings_dict, filter, entry) ==
    IF ~FilterIsNone(filter) /\ ~FilterAccepts(filter, entry)
    THEN filings_dict
    ELSE AddEntry(filings_dict, entry)

RECURSIVE ParseEntries(_, _, _, _)
\* the body of `for entry in entries`, on the fields of the entry
ParseEntry(entries, i, filter, filings_dict, fields) ==
    IF FilingEntryRaises(fields) \/ FilterRaises(filter)
    THEN [filings_dict |-> filings_dict, raised |-> "TypeError"]
    ELSE ParseEntries(entries, i + 1, filter,
                      KeepEntry(filings_dict, filter,
                                FilingEntry(fields, ArchivesPath(fields))))

\* the loop `for entry in entries` of get_filings_dict: [filings_dict, raised]
ParseEntries(entries, i, filter, filings_dict) ==
    IF i > Len(entries) THEN [filings_dict |-> filings_dict, raised |-> "none"]
    ELSE ParseEntry(entries, i, filter, filings_dict, split(entries[i], "|"))

\* self._filings_dict holds what the loop built, also when it raised
Parsed(src, parsed) ==
    [src |-> [src EXCEPT !.filings_dict = <<parsed.filings_dict>>],
     raised |-> parsed.raised]

\* the body of get_filings_dict once _get_master_idx_file has answered `got`
LoadIndex(got, filter) ==
    IF got.raised # "none" THEN [src |-> got.src, raised |-> got.raised]
    ELSE Parsed(got.src,
                ParseEntries(findall(got.src.master_idx_file[1]), 1, filter, <<>>))

\* IndexFilings.get_filings_dict: [src, raised]
get_filings_dict(src, update_cache) ==
    IF src.filings_dict = None \/ update_cache
    THEN LoadIndex(_get_master_idx_file(src, FALSE), src.entry_filter)
    ELSE [src |-> src, raised |-> "none"]

\* Mutant: the path is returned without the base address.
_prepare_query_relative(path) == path

\* NetworkClient._prepare_query: "{base}{path}"
_prepare_query(path) == <<"http://www.sec.gov/">> \o path

\* {company: [self.client._prepare_query(entry.path) for entry in entries] ...}
UrlsOf(filings_dict) ==
    [company \in DOMAIN filings_dict |->
        [i \in 1..Len(filings_dict[company]) |->
            _prepare_query(filings_dict[company][i].path)]]

\* self._urls = ...; return self._urls, once get_filings_dict has answered
ResolveUrls(got, urls) ==
    IF got.raised # "none"
    THEN [src |-> got.src, raised |-> got.raised, value |-> <<>>]
    ELSE [src |-> [got.src EXCEPT !.urls = urls], raised |-> "none", value |-> urls]

MemoizedUrls(got) ==
    ResolveUrls(got, IF got.raised # "none" THEN <<>>
                     ELSE UrlsOf(got.src.filings_dict[1]))

\* IndexFilings.get_urls: [src, raised, value]
IndexFilings_get_urls(src) ==
    IF DOMAIN src.urls = {}
    THEN MemoizedUrls(get_filings_dict(src, FALSE))
    ELSE [src |-> src, raised |-> "none", value |-> src.urls]

Outcome(r) == [raised |-> r.raised, value |-> r.value]

\* What a fresh source with the key and filter of src answers to get_urls.
FreshUrls(src) ==
    Outcome(IndexFilings_get_urls(
                NewSource(src.kind, src.year, src.quarter, src.date,
                          src.entry_filter)))

-----------------------------------------------------------------------------
(* Identity-key and filter assignment on the shared sources                *)

\* UNINITIALIZED: no listing, no index text, no FilingIndex, no URL memo.
ResetMemo(src) ==
    [src EXCEPT !.listings_directory = None, !.master_idx_file = None,
                !.filings_dict = None, !.urls = <<>>]

\* self.quarterly.year = year
set_year(src, year) == ResetMemo([src EXCEPT !.year = year])

\* self.quarterly.quarter = quarter
set_quarter(src, quarter) == ResetMemo([src EXCEPT !.quarter = quarter])

\* self.daily.date = d
set_date(src, d) == ResetMemo([src EXCEPT !.date = d])

\* self.quarterly.entry_filter = lambda x: f(x) and self.entry_filter(x)
set_entry_filter(src, filter) == [src EXCEPT !.entry_filter = filter]

\* self.daily._date = date (filings/combo.py): the field is written directly.
assign_date_field(src, d) == [src EXCEPT !.date = d]

-----------------------------------------------------------------------------
(* ComboFilings.get_urls (secedgar/core/combo.py)                          *)

\* Mutant: accumulator[key] = value, the earlier sub-calls' URLs overwritten.
reducer_overwrite(accumulator, dictionary) ==
    [key \in DOMAIN accumulator \cup DOMAIN dictionary |->
        IF key \in DOMAIN dictionary THEN dictionary[key] ELSE accumulator[key]]

\* def reducer(accumulator, dictionary)
reducer(accumulator, dictionary) ==
    [key \in DOMAIN accumulator \cup DOMAIN dictionary |->
        (IF key \in DOMAIN accumulator THEN accumulator[key] ELSE <<>>)
        \o (IF key \in DOMAIN dictionary THEN dictionary[key] ELSE <<>>)]

\* functools.reduce(reducer, list_of_dicts, {})
RECURSIVE reduce(_, _, _)
reduce(dicts, i, accumulator) ==
    IF i > Len(dicts) THEN accumulator
    ELSE reduce(dicts, i + 1, reducer(accumulator, dicts[i]))

\* Mutant: the list of sub-call results kept from the previous call.
KeptListOfDicts == list_of_dicts

\* list_of_dicts = []
EmptyListOfDicts == <<>>

\* the three assignments that open the body of the quarterly loop
KeyedQuarterly(src, t) ==
    set_entry_filter(set_quarter(set_year(src, t.year), t.quarter),
                     [pred |-> t.pred, user |-> entry_filter])

RECURSIVE QuarterlyLoop(_, _, _)
\* list_of_dicts.append(self.quarterly.get_urls()); an exception leaves the loop
QuarterlyAppend(r, i, dicts) ==
    IF r.raised # "none"
    THEN [src |-> r.src, raised |-> r.raised, dicts |-> dicts]
    ELSE QuarterlyLoop(r.src, i + 1, Append(dicts, r.value))

\* for (year, quarter, f) in self.quarterly_date_list: [src, raised, dicts]
QuarterlyLoop(src, i, dicts) ==
    IF i > Len(quarterly_date_list)
    THEN [src |-> src, raised |-> "none", dicts |-> dicts]
    ELSE QuarterlyAppend(
             IndexFilings_get_urls(KeyedQuarterly(src, quarterly_date_list[i])),
             i, dicts)

RECURSIVE DailyLoop(_, _, _)
\* try: list_of_dicts.append(self.daily.get_urls())
\* except EDGARQueryError: pass
DailyAppend(r, i, dicts) ==
    IF r.raised = "EDGARQueryError"
    THEN DailyLoop(r.src, i + 1, dicts)
    ELSE DailyLoop(r.src, i + 1, Append(dicts, r.value))

\* for d in self.daily_date_list: [src, raised, dicts]
DailyLoop(src, i, dicts) ==
    IF i > Len(daily_date_list)
    THEN [src |-> src, raised |-> "none", dicts |-> dicts]
    ELSE DailyAppend(IndexFilings_get_urls(set_date(src, daily_date_list[i])),
                     i, dicts)

-----------------------------------------------------------------------------
(* ComboFilings.save (secedgar/core/combo.py)                              *)

\* urls = self._check_urls_exist(): the URLs of get_urls(), whose failure
\* propagates.
_check_urls_exist(src) == IndexFilings_get_urls(src)

\* the links of every company
Links(urls) == UNION {{urls[company][i] : i \in DOMAIN urls[company]} :
                         company \in DOMAIN urls}

\* the else branch of save_filings (download_all=False): every link is
\* downloaded into its own file
DownloadLinks(r) ==
    [src |-> r.src, raised |-> r.raised,
     files |-> IF r.raised = "none" THEN Links(r.value) ELSE {}]

\* IndexFilings.save_filings, which DailyFilings.save and
\* QuarterlyFilings.save delegate to: [src, raised, files]
save_filings(src) == DownloadLinks(_check_urls_exist(src))

\* what one sub-call of ComboFilings.save asked for and how it ended
SubSave(r) == [period |-> PeriodKey(r.src), raised |-> r.raised]

RECURSIVE QuarterlySaveLoop(_, _, _, _)
\* self.quarterly.save(...): an exception leaves the loop and the method
QuarterlySaved(r, i, files, subs) ==
    IF r.raised # "none"
    THEN [src |-> r.src, raised |-> r.raised, files |-> files,
          subs |-> Append(subs, SubSave(r))]
    ELSE QuarterlySaveLoop(r.src, i + 1, files \cup r.files,
                           Append(subs, SubSave(r)))

\* for (year, quarter, f) in self.quarterly_date_list:
\* [src, raised, files, subs]
QuarterlySaveLoop(src, i, files, subs) ==
    IF i > Len(quarterly_date_list)
    THEN [src |-> src, raised |-> "none", files |-> files, subs |-> subs]
    ELSE QuarterlySaved(save_filings(KeyedQuarterly(src, quarterly_date_list[i])),
                        i, files, subs)

RECURSIVE DailySaveLoop(_, _, _, _)
\* Mutant: no try/except around self.daily.save(...).
DailySaved_propagates(r, i, files, subs) ==
    IF r.raised # "none"
    THEN [src |-> r.src, raised |-> r.raised, files |-> files,
          subs |-> Append(subs, SubSave(r))]
    ELSE DailySaveLoop(r.src, i + 1, files \cup r.files,
                       Append(subs, SubSave(r)))

\* try: self.daily.save(...)
\* except (EDGARQueryError, NoFilingsError): pass
DailySaved(r, i, files, subs) ==
    IF r.raised \in {"none", "EDGARQueryError", "NoFilingsError"}
    THEN DailySaveLoop(r.src, i + 1, files \cup r.files,
                       Append(subs, SubSave(r)))
    ELSE [src |-> r.src, raised |-> r.raised, files |-> files,
          subs |-> Append(subs, SubSave(r))]

\* for d in self.daily_date_list: [src, raised, files, subs]
DailySaveLoop(src, i, files, subs) ==
    IF i > Len(daily_date_list)
    THEN [src |-> src, raised |-> "none", files |-> files, subs |-> subs]
    ELSE DailySaved(save_filings(set_date(src, daily_date_list[i])),
                    i, files, subs)

-----------------------------------------------------------------------------
(* DailyFilings.save, download_all=False (secedgar/filings/daily.py)       *)

\* Patterns are sequences of replacement fields, "/" and literal text.
\* str.format(**fields): every replacement field gives way to its value.
RECURSIVE format(_, _)
format(pattern, fields) ==
    IF pattern = <<>> THEN <<>>
    ELSE (IF Head(pattern) \in DOMAIN fields THEN fields[Head(pattern)]
          ELSE <<Head(pattern)>>)
         \o format(Tail(pattern), fields)

\* os.path.join of relative paths
join(head, tail) == head \o <<"/">> \o tail

\* self._date.strftime(date_format)
strftime(d, date_format) ==
    IF date_format = "%Y-%m-%d" THEN IsoDate(d)
    ELSE Chars4(YearOf(d)) \o Chars2(MonthOf(d)) \o Chars2(DayOf(d))

\* The chunks of a URL that end with a slash.
SlashChunks == {"http://www.sec.gov/", "Archives/", "edgar/data/", "/"}

\* get_accession_number(link): the final path segment of the URL
get_accession_number(link) ==
    SubSeq(link,
           1 + CHOOSE i \in DOMAIN link :
                   /\ link[i] \in SlashChunks
                   /\ \A j \in DOMAIN link : link[j] \in SlashChunks => j <= i,
           Len(link))

\* dir_pattern = os.path.join("{date}", "{cik}")
DefaultDirPattern == <<"{date}", "/", "{cik}">>

\* formatted_dir = dir_pattern.format(date=..., cik="{cik}") of
\* DailyFilings.save, dir_pattern being None or <<pattern>>
DailyFormattedDir(d, dir_pattern, date_format) ==
    format(IF dir_pattern = None THEN DefaultDirPattern ELSE dir_pattern[1],
           [field \in {"{date}", "{cik}"} |->
               IF field = "{date}" THEN strftime(d, date_format) ELSE <<"{cik}">>])

\* inputs.append((link, path)) for the i-th link of a company
InputPair(links, i, directory, formatted_dir, file_pattern) ==
    <<links[i],
      join(join(directory, formatted_dir),
           format(file_pattern[1],
                  [field \in {"{accession_number}"} |->
                      get_accession_number(links[i])]))>>

\* the loop over urls.items() that builds inputs; file_pattern.format raises
\* AttributeError on the first link when file_pattern is None
BuildInputs(urls, directory, dir_pattern, file_pattern) ==
    IF file_pattern = None /\ \E company \in DOMAIN urls : urls[company] # <<>>
    THEN [raised |-> "AttributeError", inputs |-> <<>>]
    ELSE [raised |-> "none",
          inputs |-> [company \in DOMAIN urls |->
                        [i \in DOMAIN urls[company] |->
                            InputPair(urls[company], i, directory,
                                      format(dir_pattern,
                                             [field \in {"{cik}"} |-> company]),
                                      file_pattern)]]]

\* save_filings once _check_urls_exist has answered r: the inputs are handed
\* to wait_for_download_async unless an exception came first
HandInputs(r, built_inputs) ==
    IF r.raised # "none"
    THEN [src |-> r.src, raised |-> r.raised, inputs |-> <<>>]
    ELSE [src |-> r.src, raised |-> built_inputs.raised,
          inputs |-> built_inputs.inputs]

\* IndexFilings.save_filings(directory, dir_pattern, file_pattern):
\* [src, raised, inputs]
save_filings_to(r, directory, dir_pattern, file_pattern) ==
    HandInputs(r, IF r.raised # "none" THEN [raised |-> r.raised, inputs |-> <<>>]
                  ELSE BuildInputs(r.value, directory, dir_pattern, file_pattern))

\* The directory argument of save.
Directory == <<"filings">>

-----------------------------------------------------------------------------
(* IndexFilings._move_to_dest (secedgar/filings/_index.py)                 *)

\* The chunks of a file name that start with a dot.
DotChunks == {".txt"}

\* s.split('.')[0]
BeforeDot(s) ==
    IF \E i \in DOMAIN s : s[i] \in DotChunks
    THEN SubSeq(s, 1, (CHOOSE i \in DOMAIN s :
                          /\ s[i] \in DotChunks
                          /\ \A j \in DOMAIN s : s[j] \in DotChunks => i <= j) - 1)
    ELSE s

\* The positions of the chunks of link that end with a slash.
Slashes(link) == {i \in DOMAIN link : link[i] \in SlashChunks}

\* link.split('/')[-2], on a URL whose path has a directory: what stands
\* between the last two slashes
link_cik(link) ==
    LET last  == CHOOSE i \in Slashes(link) : \A j \in Slashes(link) : j <= i
        prior == CHOOSE i \in Slashes(link) \ {last} :
                     \A j \in Slashes(link) \ {last} : j <= i
    IN  SubSeq(link, prior + 1, last - 1)

\* Mutant: the correction revisions come before the primary file.
possible_endings_reversed == <<"corr01", "corr02", "corr03", "corr04", "nc">>

\* possible_endings = ('nc', 'corr04', 'corr03', 'corr02', 'corr01')
possible_endings == <<"nc", "corr04", "corr03", "corr02", "corr01">>

\* full_filepath = filepath + '.' + ending
full_filepath(link, ending) ==
    BeforeDot(get_accession_number(link)) \o <<".", ending>>

\* move_queue.put_nowait((formatted_file, full_dir, old_path))
QueuedMove(link, ending, extract_directory, directory, dir_pattern, file_pattern) ==
    <<format(file_pattern[1],
             [field \in {"{accession_number}"} |-> get_accession_number(link)]),
      join(directory, format(dir_pattern, [field \in {"{cik}"} |-> link_cik(link)])),
      join(extract_directory, full_filepath(link, ending))>>

\* for ending in possible_endings: ... break, from the k-th ending on: the
\* moves put on the queue for one link
RECURSIVE TryEndings(_, _, _, _, _, _, _)
TryEndings(link, k, extracted, extract_directory, directory, dir_pattern, file_pattern) ==
    IF k > Len(possible_endings) THEN <<>>
    ELSE IF full_filepath(link, possible_endings[k]) \in extracted
         THEN <<QueuedMove(link, possible_endings[k], extract_directory,
                           directory, dir_pattern, file_pattern)>>
         ELSE TryEndings(link, k + 1, extracted, extract_directory, directory,
                         dir_pattern, file_pattern)

\* A file of the link is among the extracted files.
HasExtracted(link, extracted) ==
    \E k \in DOMAIN possible_endings :
        full_filepath(link, possible_endings[k]) \in extracted

\* IndexFilings._move_to_dest: [raised, moves]; file_pattern.format raises
\* AttributeError on the first link that has a file when file_pattern is None
_move_to_dest(urls, extracted, extract_directory, directory, dir_pattern, file_pattern) ==
    IF /\ file_pattern = None
       /\ \E company \in DOMAIN urls : \E i \in DOMAIN urls[company] :
             HasExtracted(urls[company][i], extracted)
    THEN [raised |-> "AttributeError", moves |-> <<>>]
    ELSE [raised |-> "none",
          moves  |-> [company \in DOMAIN urls |->
                        [i \in DOMAIN urls[company] |->
                            TryEndings(urls[company][i], 1, extracted,
                                       extract_directory, directory,
                                       dir_pattern, file_pattern)]]]

-----------------------------------------------------------------------------
(* Operations                                                              *)

NoReturn == [raised |-> "none", value |-> <<>>]

NoDailySave ==
    [dir_pattern |-> None, file_pattern |-> None, date_format |-> "none",
     inputs |-> <<>>]

Forget ==
    /\ list_of_dicts' = <<>>
    /\ sub_saves' = <<>>
    /\ daily_save' = NoDailySave
    /\ requests' = <<>>
    /\ ret' = NoReturn
    /\ prev_ret' = NoReturn
    /\ calls_in_row' = 0
    /\ last_call' = "none"

\* ComboFilings.__init__
ComboFilings_init(sd, ed, bp, filter) ==
    /\ ~built
    /\ built' = TRUE
    /\ raised' = "none"
    /\ entry_filter' = filter
    /\ start_date' = sd
    /\ end_date' = ed
    /\ quarterly' = NewSource("full-index", YearOf(sd), get_quarter(sd), sd,
                              [pred |-> "all", user |-> filter])
    /\ daily' = NewSource("daily-index", YearOf(sd), get_quarter(sd), sd,
                          [pred |-> "all", user |-> filter])
    /\ balancing_point' = bp
    /\ LET plan == _recompute(sd, ed, bp)
       IN  /\ quarterly_date_list' = plan.quarterly_date_list
           /\ daily_date_list' = plan.daily_date_list
    /\ UNCHANGED <<remote, failing, disk, observer_vars, transfer_vars>>

\* combo.start_date = d: a plain attribute of the instance
SetStartDate(d) ==
    /\ built
    /\ start_date' = d
    /\ raised' = "none"
    /\ Forget
    /\ UNCHANGED <<built, end_date, balancing_point, entry_filter,
                   quarterly_date_list, daily_date_list, quarterly, daily, remote, failing, disk, transfer_vars>>

\* combo.end_date = d
SetEndDate(d) ==
    /\ built
    /\ end_date' = d
    /\ raised' = "none"
    /\ Forget
    /\ UNCHANGED <<built, start_date, balancing_point, entry_filter,
                   quarterly_date_list, daily_date_list, quarterly, daily, remote, failing, disk, transfer_vars>>

\* combo.balancing_point = bp
SetBalancingPoint(bp) ==
    /\ built
    /\ balancing_point' = bp
    /\ raised' = "none"
    /\ Forget
    /\ UNCHANGED <<built, start_date, end_date, entry_filter,
                   quarterly_date_list, daily_date_list, quarterly, daily, remote, failing, disk, transfer_vars>>

\* complete_dictionary = reduce(reducer, list_of_dicts, {}); return it
ReturnMerged(q, d) ==
    /\ quarterly' = q.src
    /\ daily' = d.src
    /\ raised' = "none"
    /\ list_of_dicts' = d.dicts
    /\ ret' = [raised |-> "none", value |-> reduce(d.dicts, 1, <<>>)]

\* the daily loop and the merge, or the exception of a quarterly sub-call
AfterQuarterlyLoop(q) ==
    IF q.raised # "none"
    THEN /\ quarterly' = q.src
         /\ daily' = daily
         /\ raised' = q.raised
         /\ list_of_dicts' = <<>>
         /\ ret' = [raised |-> q.raised, value |-> <<>>]
    ELSE ReturnMerged(q, DailyLoop(daily, 1, q.dicts))

\* ComboFilings.get_urls
ComboFilings_get_urls ==
    /\ built
    /\ AfterQuarterlyLoop(QuarterlyLoop(quarterly, 1, EmptyListOfDicts))
    /\ prev_ret' = ret
    /\ calls_in_row' = IF calls_in_row < 2 THEN calls_in_row + 1 ELSE 2
    /\ last_call' = "ComboFilings.get_urls"
    /\ sub_saves' = <<>>
    /\ daily_save' = NoDailySave
    /\ requests' = <<>>
    /\ UNCHANGED <<built, planner_vars, remote, failing, disk, transfer_vars>>

\* the method returns or raises: the files written so far stay on disk
SaveReturned(q, d) ==
    /\ quarterly' = q.src
    /\ daily' = d.src
    /\ raised' = d.raised
    /\ disk' = disk \cup d.files
    /\ sub_saves' = d.subs
    /\ ret' = [raised |-> d.raised, value |-> <<>>]

\* the daily loop, or the exception of a quarterly sub-call
AfterQuarterlySaveLoop(q) ==
    IF q.raised # "none"
    THEN SaveReturned(q, [q EXCEPT !.src = daily])
    ELSE SaveReturned(q, DailySaveLoop(daily, 1, q.files, q.subs))

\* ComboFilings.save(directory), with download_all=False
ComboFilings_save ==
    /\ built
    /\ AfterQuarterlySaveLoop(QuarterlySaveLoop(quarterly, 1, {}, <<>>))
    /\ prev_ret' = NoReturn
    /\ list_of_dicts' = <<>>
    /\ calls_in_row' = 0
    /\ last_call' = "ComboFilings.save"
    /\ requests' = <<>>
    /\ daily_save' = NoDailySave
    /\ UNCHANGED <<built, planner_vars, remote, failing, transfer_vars>>

\* self.daily._date = date, on a DailyFilings instance
AssignDateField(d) ==
    /\ ~built
    /\ daily' = assign_date_field(daily, d)
    /\ raised' = "none"
    /\ Forget
    /\ UNCHANGED <<built, planner_vars, quarterly, remote, failing, disk, transfer_vars>>

\* return self._urls, or the exception, of a call on the DailyFilings instance
Returned(r) ==
    /\ daily' = r.src
    /\ raised' = r.raised
    /\ ret' = Outcome(r)

\* DailyFilings.get_urls (IndexFilings.get_urls on a DailyFilings instance)
DailyFilings_get_urls ==
    /\ ~built
    /\ Returned(IndexFilings_get_urls(daily))
    /\ prev_ret' = NoReturn
    /\ list_of_dicts' = <<>>
    /\ sub_saves' = <<>>
    /\ daily_save' = NoDailySave
    /\ requests' = <<>>
    /\ calls_in_row' = 0
    /\ last_call' = "DailyFilings.get_urls"
    /\ UNCHANGED <<built, planner_vars, quarterly, remote, failing, disk, transfer_vars>>

\* DailyFilings._get_idx_formatted_date
DailyFilings_get_idx_formatted_date ==
    /\ ~built
    /\ raised' = "none"
    /\ ret' = [raised |-> "none", value |-> _get_idx_formatted_date(daily.date)]
    /\ prev_ret' = NoReturn
    /\ list_of_dicts' = <<>>
    /\ sub_saves' = <<>>
    /\ daily_save' = NoDailySave
    /\ requests' = <<>>
    /\ calls_in_row' = 0
    /\ last_call' = "DailyFilings._get_idx_formatted_date"
    /\ UNCHANGED <<built, planner_vars, quarterly, daily, remote, failing, disk, transfer_vars>>

\* return self._filings_dict, or the exception
ReturnedIndex(r) ==
    /\ daily' = r.src
    /\ raised' = r.raised
    /\ ret' = [raised |-> r.raised,
               value  |-> IF r.raised = "none" THEN r.src.filings_dict[1] ELSE <<>>]

\* DailyFilings.get_filings_dict(update_cache)
DailyFilings_get_filings_dict(update_cache) ==
    /\ ~built
    /\ ReturnedIndex(get_filings_dict(daily, update_cache))
    /\ prev_ret' = NoReturn
    /\ list_of_dicts' = <<>>
    /\ sub_saves' = <<>>
    /\ daily_save' = NoDailySave
    /\ requests' = <<>>
    /\ calls_in_row' = 0
    /\ last_call' = "DailyFilings.get_filings_dict"
    /\ UNCHANGED <<built, planner_vars, quarterly, remote, failing, disk, transfer_vars>>

\* return self._master_idx_file, or the exception
ReturnedText(r) ==
    /\ daily' = r.src
    /\ raised' = r.raised
    /\ requests' = r.requests
    /\ ret' = [raised |-> r.raised,
               value  |-> IF r.raised = "none" THEN r.src.master_idx_file[1] ELSE <<>>]

\* isinstance(date, datetime.datetime).  The mutant is a constructor that
\* takes numbers too.
isinstance_datetime_or_number(date) == date.type \in {"datetime", "int", "float"}

isinstance_datetime(date) == date.type = "datetime"

\* The name under which a construction is recorded, by the type of its date.
InitCall ==
    [datetime |-> "DailyFilings(date=datetime)", float |-> "DailyFilings(date=float)",
     int |-> "DailyFilings(date=int)", str |-> "DailyFilings(date=str)"]

\* DailyFilings(date): IndexFilings.__init__ clears the caches without any
\* request, then the date is tested and stored; when TypeError is raised no
\* new instance exists and the one at hand stays as it is
DailyFilings_init(date, filter) ==
    /\ ~built
    /\ IF isinstance_datetime(date)
       THEN /\ daily' = NewSource("daily-index", YearOf(date.ordinal),
                                  get_quarter(date.ordinal), date.ordinal,
                                  [pred |-> "all", user |-> filter])
            /\ raised' = "none"
            /\ ret' = NoReturn
       ELSE /\ daily' = daily
            /\ raised' = "TypeError"
            /\ ret' = [raised |-> "TypeError", value |-> <<>>]
    /\ requests' = <<>>
    /\ prev_ret' = NoReturn
    /\ list_of_dicts' = <<>>
    /\ sub_saves' = <<>>
    /\ daily_save' = NoDailySave
    /\ calls_in_row' = 0
    /\ last_call' = InitCall[date.type]
    /\ UNCHANGED <<built, planner_vars, quarterly, remote, failing, disk, transfer_vars>>

\* DailyFilings._get_master_idx_file(update_cache)
DailyFilings_get_master_idx_file(update_cache) ==
    /\ ~built
    /\ ReturnedText(_get_master_idx_file(daily, update_cache))
    /\ prev_ret' = NoReturn
    /\ list_of_dicts' = <<>>
    /\ sub_saves' = <<>>
    /\ daily_save' = NoDailySave
    /\ calls_in_row' = 0
    /\ last_call' = IF update_cache
                    THEN "DailyFilings._get_master_idx_file(update_cache=True)"
                    ELSE "DailyFilings._get_master_idx_file()"
    /\ UNCHANGED <<built, planner_vars, quarterly, remote, failing, disk, transfer_vars>>

\* the call returns once the fetcher has written every input, or raises
DailySaved_to(r, dir_pattern, file_pattern, date_format) ==
    /\ daily' = r.src
    /\ raised' = r.raised
    /\ ret' = [raised |-> r.raised, value |-> <<>>]
    /\ daily_save' = [dir_pattern |-> dir_pattern, file_pattern |-> file_pattern,
                      date_format |-> date_format, inputs |-> r.inputs]
    /\ disk' = disk \cup UNION {{r.inputs[company][i][1] :
                                    i \in DOMAIN r.inputs[company]} :
                                 company \in DOMAIN r.inputs}

\* DailyFilings.save(directory, dir_pattern, file_pattern, date_format)
DailyFilings_save(dir_pattern, file_pattern, date_format) ==
    /\ ~built
    /\ DailySaved_to(save_filings_to(_check_urls_exist(daily), Directory,
                                     DailyFormattedDir(daily.date, dir_pattern,
                                                       date_format),
                                     file_pattern),
                     dir_pattern, file_pattern, date_format)
    /\ prev_ret' = NoReturn
    /\ list_of_dicts' = <<>>
    /\ sub_saves' = <<>>
    /\ requests' = <<>>
    /\ calls_in_row' = 0
    /\ last_call' = "DailyFilings.save"
    /\ UNCHANGED <<built, planner_vars, quarterly, remote, failing, transfer_vars>>

\* the state of the index sources and of the range planner
index_vars == <<built, raised, planner_vars, quarterly, daily, remote, failing,
                disk, observer_vars>>

\* _move_to_dest(urls, extract_directory, directory, file_pattern,
\* dir_pattern) on the URLs the instance holds
IndexFilings_move_to_dest(dir_pattern, file_pattern) ==
    /\ ~built
    /\ DOMAIN daily.urls # {}
    /\ move_queue = <<>>
    /\ move_queue' = _move_to_dest(daily.urls, extracted_files,
                                   join(Directory, <<"temp">>), Directory,
                                   dir_pattern, file_pattern).moves
    /\ UNCHANGED <<late_vars, index_vars, extracted_files, fs, callers, pool_vars, fetcher,
                   client>>

\* The threads that call save_filings(download_all=True) on one directory.
Callers == {"first", "second"}

\* A call that has not started.
IdleCaller ==
    [pc |-> "idle", extract_directory |-> <<"temp">>, i |-> 0,
     file_pattern |-> None, raised |-> "none", walked |-> {}]

\* save_filings(download_all=True) begins: extract_directory =
\* os.path.join(directory, 'temp'); i = 0
BulkStart(c, file_pattern) ==
    /\ callers[c].pc = "idle"
    /\ callers' = [callers EXCEPT ![c] =
                      [IdleCaller EXCEPT !.pc = "exists",
                                         !.file_pattern = file_pattern]]
    /\ UNCHANGED <<late_vars, index_vars, extracted_files, move_queue, fs, pool_vars,
                   fetcher, client>>

\* one test of `while os.path.exists(extract_directory)`, and the body of
\* the loop when the directory exists
BulkExists(c) ==
    /\ callers[c].pc = "exists"
    /\ callers' = [callers EXCEPT ![c] =
                      IF callers[c].extract_directory \in DOMAIN fs
                      THEN [@ EXCEPT !.extract_directory =
                                         <<"temp", DigitChar(callers[c].i)>>,
                                     !.i = @ + 1]
                      ELSE [@ EXCEPT !.pc = "make_path"]]
    /\ UNCHANGED <<late_vars, index_vars, extracted_files, move_queue, fs, pool_vars,
                   fetcher, client>>

\* make_path(extract_directory): the directory is created unless it exists
make_path(files, path) ==
    [dir \in DOMAIN files \cup {path} |->
        IF dir \in DOMAIN files THEN files[dir] ELSE {}]

BulkMakePath(c) ==
    /\ callers[c].pc = "make_path"
    /\ fs' = make_path(fs, callers[c].extract_directory)
    /\ callers' = [callers EXCEPT ![c].pc = "unzip"]
    /\ UNCHANGED <<late_vars, index_vars, extracted_files, move_queue, pool_vars, fetcher,
                   client>>

\* self._unzip(extract_directory): the archives of the call are unpacked
\* into the directory, which unpacking creates again if it is gone
BulkUnzip(c) ==
    /\ callers[c].pc = "unzip"
    /\ fs' = [make_path(fs, callers[c].extract_directory)
                 EXCEPT ![callers[c].extract_directory] = @ \cup {c}]
    /\ callers' = [callers EXCEPT ![c].pc = "move_to_dest"]
    /\ UNCHANGED <<late_vars, index_vars, extracted_files, move_queue, pool_vars, fetcher,
                   client>>

\* self._unzip(extract_directory) raises: an archive cannot be fetched
BulkUnzipRaises(c) ==
    /\ callers[c].pc = "unzip"
    /\ callers' = [callers EXCEPT ![c].pc = "raised",
                                  ![c].raised = "EDGARQueryError"]
    /\ UNCHANGED <<late_vars, index_vars, extracted_files, move_queue, fs, pool_vars,
                   fetcher, client>>

\* self._move_to_dest(...): next(os.walk(extract_directory)) lists the files
\* of the directory and the files of the links are queued; the call raises
\* when the directory is gone, and on file_pattern.format when file_pattern
\* is None
BulkMoveToDest(c) ==
    /\ callers[c].pc = "move_to_dest"
    /\ callers' = [callers EXCEPT ![c] =
                      IF callers[c].extract_directory \notin DOMAIN fs
                      THEN [@ EXCEPT !.pc = "raised", !.raised = "StopIteration"]
                      ELSE IF /\ callers[c].file_pattern = None
                              /\ c \in fs[callers[c].extract_directory]
                           THEN [@ EXCEPT !.pc = "raised",
                                          !.raised = "AttributeError",
                                          !.walked = fs[callers[c].extract_directory]]
                           ELSE [@ EXCEPT !.pc = "rmtree",
                                          !.walked = fs[callers[c].extract_directory]]]
    /\ UNCHANGED <<late_vars, index_vars, extracted_files, move_queue, fs, pool_vars,
                   fetcher, client>>

\* shutil.rmtree(extract_directory), after which save_filings returns
BulkRmtree(c) ==
    /\ callers[c].pc = "rmtree"
    /\ fs' = [dir \in DOMAIN fs \ {callers[c].extract_directory} |-> fs[dir]]
    /\ callers' = [callers EXCEPT ![c] =
                      IF callers[c].extract_directory \in DOMAIN fs
                      THEN [@ EXCEPT !.pc = "returned"]
                      ELSE [@ EXCEPT !.pc = "raised",
                                     !.raised = "FileNotFoundError"]]
    /\ UNCHANGED <<late_vars, index_vars, extracted_files, move_queue, pool_vars, fetcher,
                   client>>

\* Python values handed to NetworkClient: ints and floats carry their value
\* in halves (1 is 2 halves, 0.5 is 1 half), float('nan') is a float that
\* is not a number, and there are a str and None.
IntValue(n) == [type |-> "int", nan |-> FALSE, halves |-> 2 * n]

FloatValue(halves) == [type |-> "float", nan |-> FALSE, halves |-> halves]

NaN == [type |-> "float", nan |-> TRUE, halves |-> 0]

StrValue == [type |-> "str", nan |-> FALSE, halves |-> 0]

NoneValue == [type |-> "NoneType", nan |-> FALSE, halves |-> 0]

\* No NetworkClient has been constructed.
UnbuiltClient ==
    [constructed |-> FALSE, retry_count |-> NoneValue, pause |-> NoneValue,
     batch_size |-> NoneValue, rate_limit |-> NoneValue, raised |-> "none",
     before |-> <<>>, request_raised |-> "none"]

\* No call of get_response has been made.
IdleGetter ==
    [pc |-> "idle", retry_count |-> 0, i |-> 0, answers |-> <<>>,
     response |-> None, self_response |-> None, before |-> None,
     raised |-> "none", returned |-> None]

NoFiling == <<>>

NoLookup == <<>>

NoSimple == <<>>

\* _recompute is not running.
NoLoop ==
    [pc |-> "idle", start_date |-> 0, end_date |-> 0, balancing_point |-> 0,
     st |-> [current_date |-> 0, quarterly_date_list |-> <<>>,
             daily_date_list |-> <<>>],
     iterations |-> 0]

NoLate ==
    /\ getter = IdleGetter
    /\ filing = NoFiling
    /\ lookup = NoLookup
    /\ simple = NoSimple
    /\ loop = NoLoop

\* No call of wait_for_download_async has been made.
IdleFetcher ==
    [pc |-> "idle", inputs |-> 0, rate_limit |-> 1, bad |-> {}, ndx |-> 0,
     group |-> {}, start |-> 0, starts |-> <<>>, issued |-> <<>>,
     pending |-> {}, written |-> {}, failed |-> 0, sleep_until |-> 0,
     clock |-> 0]

\* No pool of worker threads has been started.
IdlePool ==
    [pc |-> "idle", kind |-> "none", threads |-> 0, started |-> 0, items |-> 0,
     put |-> 0, queue |-> <<>>, unfinished_tasks |-> 0, done |-> {}]

\* The most items a call puts on its queue.
MaxItems == 2

\* move_threads of _move_to_dest (64 in the source).
move_threads == 2

\* Every thread a pool may start: _unzip starts one per archive.
WorkerIds == 1..(IF MaxItems > move_threads THEN MaxItems ELSE move_threads)

\* No thread has been started.
NoWorkers == [w \in WorkerIds |-> [pc |-> "unstarted", item |-> 0]]

\* _unzip or _move_to_dest begins: Queue(maxsize=len(...)) and the number of
\* threads, len(tar_files) for _unzip and move_threads for _move_to_dest
PoolBegin(kind, n) ==
    /\ pool.pc = "idle"
    /\ pool' = [IdlePool EXCEPT !.pc = "running", !.kind = kind, !.items = n,
                                !.threads = IF kind = "unpack" THEN n
                                            ELSE move_threads]
    /\ workers' = NoWorkers
    /\ UNCHANGED <<late_vars, index_vars, bulk_vars, fetcher, client>>

\* one round of the first loop: Thread(target=...).start()
PoolStartWorker ==
    /\ pool.pc = "running"
    /\ pool.started < pool.threads
    /\ pool' = [pool EXCEPT !.started = @ + 1]
    /\ workers' = [workers EXCEPT ![pool.started + 1].pc = "get"]
    /\ UNCHANGED <<late_vars, index_vars, bulk_vars, fetcher, client>>

\* one put_nowait of the second loop, every thread having been started
PoolPut ==
    /\ pool.pc = "running"
    /\ pool.started = pool.threads
    /\ pool.put < pool.items
    /\ pool' = [pool EXCEPT !.put = @ + 1,
                            !.queue = Append(@, pool.put + 1),
                            !.unfinished_tasks = @ + 1]
    /\ UNCHANGED <<late_vars, index_vars, bulk_vars, workers, fetcher, client>>

\* queue.join() returns: every item put has been marked done
PoolJoin ==
    /\ pool.pc = "running"
    /\ pool.started = pool.threads
    /\ pool.put = pool.items
    /\ pool.unfinished_tasks = 0
    /\ pool' = [pool EXCEPT !.pc = "joined"]
    /\ UNCHANGED <<late_vars, index_vars, bulk_vars, workers, fetcher, client>>

\* q.get(timeout=1) hands an item to the worker
WorkerGet(w) ==
    /\ workers[w].pc = "get"
    /\ pool.queue # <<>>
    /\ workers' = [workers EXCEPT ![w] = [pc |-> "work", item |-> Head(pool.queue)]]
    /\ pool' = [pool EXCEPT !.queue = Tail(@)]
    /\ UNCHANGED <<late_vars, index_vars, bulk_vars, fetcher, client>>

\* q.get(timeout=1) finds the queue empty for one second: except Empty: return
WorkerEmpty(w) ==
    /\ workers[w].pc = "get"
    /\ pool.queue = <<>>
    /\ workers' = [workers EXCEPT ![w].pc = "returned"]
    /\ UNCHANGED <<late_vars, index_vars, bulk_vars, pool, fetcher, client>>

\* the item is unpacked or copied, then q.task_done()
WorkerTaskDone(w) ==
    /\ workers[w].pc = "work"
    /\ pool' = [pool EXCEPT !.unfinished_tasks = @ - 1,
                            !.done = @ \cup {workers[w].item}]
    /\ workers' = [workers EXCEPT ![w] = [pc |-> "get", item |-> 0]]
    /\ UNCHANGED <<late_vars, index_vars, bulk_vars, fetcher, client>>

\* The steps of the call that owns the pool.
Producer ==
    \/ \E kind \in {"unpack", "move"}, n \in 0..MaxItems : PoolBegin(kind, n)
    \/ PoolStartWorker
    \/ PoolPut
    \/ PoolJoin

\* The steps of worker thread w.
Worker(w) ==
    \/ WorkerGet(w)
    \/ WorkerEmpty(w)
    \/ WorkerTaskDone(w)

\* The builtins min and max.
min(a, b) == IF a < b THEN a ELSE b

max(a, b) == IF a > b THEN a ELSE b

\* The ticks of time.monotonic() in one second.
TicksPerSecond == 2

\* The last tick of the clock.
MaxClock == 5

\* batch(iterable, n) at ndx: iterable[ndx:min(ndx + n, length)], the pairs
\* being numbered from 1 in the order of inputs.  The mutant yields full
\* windows only.
batch_full_only(length, ndx, n) ==
    IF ndx + n <= length THEN (ndx + 1)..(ndx + n) ELSE {}

\* Mutant: every remaining pair in one group.
batch_all_remaining(length, ndx, n) == (ndx + 1)..length

batch(length, ndx, n) == (ndx + 1)..min(ndx + n, length)

\* asyncio.gather(*tasks) raises as soon as a task has raised.  The mutant
\* is gather(*tasks, return_exceptions=True).
gather_return_exceptions(failed) == FALSE

gather_raises(failed) == failed # 0

\* max(0, 1 - execution_time), in ticks.  The mutant does not pace.
pacing_delay_none(execution_time) == 0

pacing_delay(execution_time) == max(0, TicksPerSecond - execution_time)

\* time passes
Tick ==
    /\ fetcher.pc \notin {"idle", "returned", "raised"}
    /\ fetcher.clock < MaxClock
    /\ fetcher' = [fetcher EXCEPT !.clock = @ + 1]
    /\ UNCHANGED <<late_vars, index_vars, bulk_vars, pool_vars, client>>

\* wait_for_download_async(inputs) is called with length pairs, the links
\* of bad answering with a failure
wait_for_download_async(length, rate_limit, bad) ==
    /\ fetcher.pc = "idle"
    /\ fetcher' = [IdleFetcher EXCEPT !.pc = "batch", !.inputs = length,
                                      !.rate_limit = rate_limit, !.bad = bad]
    /\ UNCHANGED <<late_vars, index_vars, bulk_vars, pool_vars, client>>

\* the for loop takes the next group, or ends; start = time.monotonic()
FetchNextGroup ==
    /\ fetcher.pc = "batch"
    /\ LET group == batch(fetcher.inputs, fetcher.ndx, fetcher.rate_limit)
       IN  fetcher' =
             IF fetcher.ndx >= fetcher.inputs
             THEN [fetcher EXCEPT !.pc = "returned"]
             ELSE [fetcher EXCEPT !.pc = IF group = {} THEN "gather" ELSE "tasks",
                                  !.group = group,
                                  !.start = fetcher.clock,
                                  !.starts = Append(@, fetcher.clock)]
    /\ UNCHANGED <<late_vars, index_vars, bulk_vars, pool_vars, client>>

\* the next task of the group, in the order of the group, starts its fetch
FetchStartTask ==
    /\ fetcher.pc = "tasks"
    /\ LET unstarted ==
             {k \in fetcher.group :
                 \A n \in DOMAIN fetcher.issued : fetcher.issued[n].pair # k}
           k == CHOOSE first \in unstarted : \A other \in unstarted : first <= other
       IN  /\ unstarted # {}
           /\ fetcher' =
                 [fetcher EXCEPT !.issued = Append(@, [pair |-> k,
                                                       window |-> Len(fetcher.starts),
                                                       at |-> fetcher.clock]),
                                 !.pending = @ \cup {k},
                                 !.pc = IF unstarted = {k} THEN "gather" ELSE "tasks"]
    /\ UNCHANGED <<late_vars, index_vars, bulk_vars, pool_vars, client>>

\* fetch_and_save(link, path, session) ends: the contents are written to path
FetchAndSave(k) ==
    /\ fetcher.pc = "gather"
    /\ k \in fetcher.pending
    /\ k \notin fetcher.bad
    /\ fetcher' = [fetcher EXCEPT !.pending = @ \ {k}, !.written = @ \cup {k}]
    /\ UNCHANGED <<late_vars, index_vars, bulk_vars, pool_vars, client>>

\* self.fetch(link, session) raises (raise_for_status=True, or the network)
\* and gather hands the exception to wait_for_download_async
FetchRaises(k) ==
    /\ fetcher.pc = "gather"
    /\ k \in fetcher.pending
    /\ k \in fetcher.bad
    /\ fetcher' = [fetcher EXCEPT !.pending = @ \ {k}, !.failed = k,
                                  !.pc = IF gather_raises(k) THEN "raised" ELSE @]
    /\ UNCHANGED <<late_vars, index_vars, bulk_vars, pool_vars, client>>

\* gather returns: execution_time = time.monotonic() - start and
\* asyncio.sleep(max(0, 1 - execution_time)) begins
FetchGathered ==
    /\ fetcher.pc = "gather"
    /\ fetcher.pending = {}
    /\ fetcher' = [fetcher EXCEPT !.pc = "sleep",
                                  !.sleep_until =
                                      fetcher.clock
                                      + pacing_delay(fetcher.clock - fetcher.start)]
    /\ UNCHANGED <<late_vars, index_vars, bulk_vars, pool_vars, client>>

\* asyncio.sleep returns and the loop goes on with the next group
FetchWake ==
    /\ fetcher.pc = "sleep"
    /\ fetcher.clock >= fetcher.sleep_until
    /\ fetcher' = [fetcher EXCEPT !.pc = "batch",
                                  !.ndx = @ + fetcher.rate_limit]
    /\ UNCHANGED <<late_vars, index_vars, bulk_vars, pool_vars, client>>

\* isinstance(value, int) and isinstance(value, (int, float))
isinstance_int(value) == value.type = "int"

isinstance_int_float(value) == value.type \in {"int", "float"}

\* value < n and n < value for a number value and an int n: every
\* comparison with float('nan') is False
less(value, n) == ~value.nan /\ value.halves < 2 * n

greater(value, n) == ~value.nan /\ value.halves > 2 * n

\* The setters: what is raised for value, "none" when value is stored.
retry_count_raises(value) ==
    IF ~isinstance_int(value) THEN "TypeError"
    ELSE IF less(value, 0) THEN "ValueError"
    ELSE "none"

pause_raises(value) ==
    IF ~isinstance_int_float(value) THEN "TypeError"
    ELSE IF less(value, 0) THEN "ValueError"
    ELSE "none"

batch_size_raises(value) ==
    IF ~isinstance_int(value) THEN "TypeError"
    ELSE IF less(value, 1) THEN "ValueError"
    ELSE "none"

\* `0 < value <= 10` raises TypeError itself for a str and for None
rate_limit_raises(value) ==
    IF ~isinstance_int_float(value) THEN "TypeError"
    ELSE IF ~(greater(value, 0) /\ ~greater(value, 10) /\ ~value.nan)
         THEN "ValueError"
    ELSE "none"

\* The defaults of __init__.
DefaultKwargs ==
    [retry_count |-> IntValue(3), pause |-> FloatValue(1),
     batch_size |-> IntValue(10), rate_limit |-> IntValue(10)]

\* The attributes a NetworkClient stores.
Stored(c) ==
    [retry_count |-> c.retry_count, pause |-> c.pause,
     batch_size |-> c.batch_size, rate_limit |-> c.rate_limit]

\* NetworkClient(**kwargs): the four setters in the order of __init__; the
\* first one that raises ends the construction and no client exists
NetworkClient_init(kwargs) ==
    /\ ~client.constructed
    /\ LET first_raised ==
             IF retry_count_raises(kwargs.retry_count) # "none"
             THEN retry_count_raises(kwargs.retry_count)
             ELSE IF pause_raises(kwargs.pause) # "none"
             THEN pause_raises(kwargs.pause)
             ELSE IF batch_size_raises(kwargs.batch_size) # "none"
             THEN batch_size_raises(kwargs.batch_size)
             ELSE rate_limit_raises(kwargs.rate_limit)
       IN  client' =
             IF first_raised # "none"
             THEN [UnbuiltClient EXCEPT !.raised = first_raised]
             ELSE [constructed |-> TRUE, retry_count |-> kwargs.retry_count,
                   pause |-> kwargs.pause, batch_size |-> kwargs.batch_size,
                   rate_limit |-> kwargs.rate_limit, raised |-> "none",
                   before |-> <<>>, request_raised |-> "none"]
    /\ UNCHANGED <<late_vars, index_vars, bulk_vars, pool_vars, fetcher>>

\* client.retry_count = value
SetRetryCount(value) ==
    /\ client.constructed
    /\ client' = [client EXCEPT
                     !.raised = retry_count_raises(value),
                     !.before = <<Stored(client)>>,
                     !.retry_count =
                         IF retry_count_raises(value) = "none" THEN value ELSE @]
    /\ UNCHANGED <<late_vars, index_vars, bulk_vars, pool_vars, fetcher>>

\* client.pause = value
SetPause(value) ==
    /\ client.constructed
    /\ client' = [client EXCEPT
                     !.raised = pause_raises(value),
                     !.before = <<Stored(client)>>,
                     !.pause = IF pause_raises(value) = "none" THEN value ELSE @]
    /\ UNCHANGED <<late_vars, index_vars, bulk_vars, pool_vars, fetcher>>

\* client.batch_size = value
SetBatchSize(value) ==
    /\ client.constructed
    /\ client' = [client EXCEPT
                     !.raised = batch_size_raises(value),
                     !.before = <<Stored(client)>>,
                     !.batch_size =
                         IF batch_size_raises(value) = "none" THEN value ELSE @]
    /\ UNCHANGED <<late_vars, index_vars, bulk_vars, pool_vars, fetcher>>

\* client.rate_limit = value
SetRateLimit(value) ==
    /\ client.constructed
    /\ client' = [client EXCEPT
                     !.raised = rate_limit_raises(value),
                     !.before = <<Stored(client)>>,
                     !.rate_limit =
                         IF rate_limit_raises(value) = "none" THEN value ELSE @]
    /\ UNCHANGED <<late_vars, index_vars, bulk_vars, pool_vars, fetcher>>

\* get_response after an attempt: finally: time.sleep(self.pause), which
\* raises ValueError for a pause that is not a number
ClientPause ==
    /\ client.constructed
    /\ client.request_raised = "none"
    /\ client' = [client EXCEPT
                     !.request_raised = IF client.pause.nan THEN "ValueError"
                                        ELSE "none",
                     !.raised = "none",
                     !.before = <<>>]
    /\ UNCHANGED <<late_vars, index_vars, bulk_vars, pool_vars, fetcher>>

\* The responses EDGAR gives: a status code, and whether the text holds one
\* of the error_messages.
Responses ==
    {[status_code |-> 200, error_message |-> FALSE],
     [status_code |-> 200, error_message |-> TRUE],
     [status_code |-> 301, error_message |-> FALSE],
     [status_code |-> 400, error_message |-> FALSE],
     [status_code |-> 404, error_message |-> FALSE],
     [status_code |-> 429, error_message |-> FALSE],
     [status_code |-> 500, error_message |-> FALSE]}

\* _validate_response(response): whether EDGARQueryError is raised
_validate_response(response) ==
    IF 400 <= response.status_code /\ response.status_code < 500 THEN TRUE
    ELSE IF 500 <= response.status_code /\ response.status_code < 600 THEN TRUE
    ELSE IF response.error_message THEN TRUE
    ELSE response.status_code # 200

\* `if i == self.retry_count: raise e`.  The mutant raises on the first
\* invalid response.
last_retry_any(i, retry_count) == TRUE

last_retry(i, retry_count) == i = retry_count

\* get_response(path, params) is called on a client of the given retry_count
get_response(retry_count) ==
    /\ getter.pc \in {"idle", "returned", "raised"}
    /\ getter' = [IdleGetter EXCEPT !.pc = "loop", !.retry_count = retry_count,
                                    !.self_response = getter.self_response,
                                    !.before = getter.self_response]
    /\ UNCHANGED <<index_vars, transfer_vars_but_late, filing, lookup, simple, loop>>

\* one round of `for i in range(self.retry_count + 1)`: requests.get, the
\* validation, the raise of the last round, the pause
GetResponseAttempt(response) ==
    /\ getter.pc = "loop"
    /\ getter.i < getter.retry_count + 1
    /\ getter' =
          IF _validate_response(response) /\ last_retry(getter.i, getter.retry_count)
          THEN [getter EXCEPT !.pc = "raised", !.raised = "EDGARQueryError",
                              !.answers = Append(@, response),
                              !.response = <<response>>]
          ELSE [getter EXCEPT !.i = @ + 1,
                              !.answers = Append(@, response),
                              !.response = <<response>>]
    /\ UNCHANGED <<index_vars, transfer_vars_but_late, filing, lookup, simple, loop>>

\* the loop is over: self.response = response; return self.response
GetResponseReturn ==
    /\ getter.pc = "loop"
    /\ getter.i >= getter.retry_count + 1
    /\ getter' = [getter EXCEPT !.pc = "returned",
                                !.self_response = getter.response,
                                !.returned = getter.response]
    /\ UNCHANGED <<index_vars, transfer_vars_but_late, filing, lookup, simple, loop>>

\* sanitize_date(date): a datetime becomes its "%Y%m%d" string, a str or an
\* int of eight characters is returned as it is, anything else raises
\* TypeError
sanitize_date(date) ==
    IF date.type = "datetime"
    THEN [raised |-> "none",
          value |-> <<[type |-> "str", ordinal |-> 0,
                       text |-> strftime(date.ordinal, "%Y%m%d")]>>]
    ELSE IF date.type \in {"str", "int"} /\ Len(date.text) = 8
    THEN [raised |-> "none", value |-> <<date>>]
    ELSE [raised |-> "TypeError", value |-> None]

\* The params entry after `self._params[...] = sanitize_date(date)`: the old
\* one when sanitize_date raises.
sanitized(old, date) ==
    IF sanitize_date(date).raised = "none" THEN sanitize_date(date).value ELSE old

\* Filing(cik_lookup, filing_type, start_date, end_date): 'dateb' is always
\* set, 'datea' only for a start_date that is not None; a date that
\* sanitize_date rejects ends the construction
Filing_init(start, end) ==
    /\ filing = NoFiling
    /\ sanitize_date(end).raised = "none"
    /\ start # None => sanitize_date(start[1]).raised = "none"
    /\ filing' = [start_date |-> start, end_date |-> <<end>>,
                  datea |-> IF start = None THEN None
                            ELSE sanitize_date(start[1]).value,
                  dateb |-> sanitize_date(end).value,
                  raised |-> "none"]
    /\ UNCHANGED <<index_vars, transfer_vars_but_late, getter, lookup, simple, loop>>

\* filing.start_date = val: self._start_date = val, then
\* self._params['datea'] = sanitize_date(val)
Filing_set_start_date(val) ==
    /\ filing # NoFiling
    /\ filing' = [filing EXCEPT !.start_date = <<val>>,
                                !.datea = sanitized(@, val),
                                !.raised = sanitize_date(val).raised]
    /\ UNCHANGED <<index_vars, transfer_vars_but_late, getter, lookup, simple, loop>>

\* filing.end_date = val: self._end_date = val, then
\* self._params['dateb'] = sanitize_date(val)
Filing_set_end_date(val) ==
    /\ filing # NoFiling
    /\ filing' = [filing EXCEPT !.end_date = <<val>>,
                                !.dateb = sanitized(@, val),
                                !.raised = sanitize_date(val).raised]
    /\ UNCHANGED <<index_vars, transfer_vars_but_late, getter, lookup, simple, loop>>

\* str(n) for an int n >= 0: its decimal digits, without padding
RECURSIVE str(_)
str(n) == IF n < 10 THEN <<DigitChar(n)>> ELSE str(n \div 10) \o <<DigitChar(n % 10)>>

\* str(n).zfill(10), the form in which EDGAR's search page shows a CIK
RECURSIVE zfill10(_)
zfill10(text) == IF Len(text) >= 10 THEN text ELSE zfill10(<<"0">> \o text)

\* The entries of company_tickers.json.
Companies ==
    {[ticker |-> "AAPL", title |-> "Apple Inc.", cik_str |-> 320193],
     [ticker |-> "FB", title |-> "Facebook Inc", cik_str |-> 1326801]}

\* The lookup terms tried, str.upper() of each, and the CIK EDGAR's search
\* knows each by.
LookupTerms == {"aapl", "Apple Inc.", "fb", "Nike"}

upper(term) ==
    CASE term = "aapl" -> "AAPL"
      [] term = "fb" -> "FB"
      [] term = "Apple Inc." -> "APPLE INC."
      [] term = "Nike" -> "NIKE"

SearchCik(term) ==
    CASE term \in {"aapl", "Apple Inc."} -> 320193
      [] term = "fb" -> 1326801
      [] term = "Nike" -> 320187

\* get_cik_map(key): {v[key]: str(v["cik_str"]) for v in json_response.values()}
get_cik_map(json_response, key) ==
    [name \in {IF key = "ticker" THEN v.ticker ELSE v.title : v \in json_response} |->
        LET v == CHOOSE v \in json_response :
                     name = (IF key = "ticker" THEN v.ticker ELSE v.title)
        IN  str(v.cik_str)]

\* _validate_cik(cik): a str of 10 characters, all digits; a lookup that
\* found several companies gives None
_validate_cik(cik) ==
    /\ cik # None
    /\ Len(cik[1]) = 10
    /\ \A n \in DOMAIN cik[1] : cik[1][n] \in DigitChars

\* _get_cik(lookup): the first word of the company's link on EDGAR's answer,
\* None when the answer lists several companies
_get_cik(term, answer) ==
    CASE answer = "single" -> <<zfill10(str(SearchCik(term)))>>
      [] answer = "unpadded" -> <<str(SearchCik(term))>>
      [] answer = "multiple" -> None

\* get_ciks(): the ticker map first, then the company-title map, then
\* EDGAR's search for what is left; EDGARQueryError of the search is not
\* caught
get_ciks(lookups, json_response, answers) ==
    LET ticker_map == get_cik_map(json_response, "ticker")
        by_ticker == {term \in lookups : upper(term) \in DOMAIN ticker_map}
        company_map == get_cik_map(json_response, "title")
        by_title == {term \in lookups \ by_ticker : term \in DOMAIN company_map}
        to_lookup == (lookups \ by_ticker) \ by_title
        by_search == {term \in to_lookup :
                         /\ answers[term] # "EDGARQueryError"
                         /\ _validate_cik(_get_cik(term, answers[term]))}
    IN  IF \E term \in to_lookup : answers[term] = "EDGARQueryError"
        THEN [raised |-> "EDGARQueryError", ciks |-> None]
        ELSE [raised |-> "none",
              ciks |-> <<[term \in by_ticker \cup by_title \cup by_search |->
                            IF term \in by_ticker THEN ticker_map[upper(term)]
                            ELSE IF term \in by_title THEN company_map[term]
                            ELSE _get_cik(term, answers[term])[1]]>>]

\* CIKLookup(lookups).get_ciks() against the company file and the search
\* answers EDGAR gives
CIKLookup_get_ciks(lookups, json_response, answers) ==
    /\ lookup' = [lookups |-> lookups, json_response |-> json_response,
                  answers |-> answers,
                  raised |-> get_ciks(lookups, json_response, answers).raised,
                  ciks |-> get_ciks(lookups, json_response, answers).ciks]
    /\ UNCHANGED <<index_vars, transfer_vars_but_late, getter, filing, simple, loop>>

\* The most iterations of the main loop that are followed.
MaxIterations == 8

\* _recompute begins: current_date = self.start_date and the lists emptied
Recompute_begin(sd, ed, bp) ==
    /\ loop.pc = "idle"
    /\ loop' = [pc |-> "while", start_date |-> sd, end_date |-> ed,
                balancing_point |-> bp,
                st |-> [current_date |-> sd, quarterly_date_list |-> <<>>,
                        daily_date_list |-> <<>>],
                iterations |-> 0]
    /\ UNCHANGED <<index_vars, transfer_vars_but_late, getter, filing, lookup, simple>>

\* one iteration of `while current_date <= self.end_date`
Recompute_iterate ==
    /\ loop.pc = "while"
    /\ loop.st.current_date <= loop.end_date
    /\ loop.iterations < MaxIterations
    /\ loop' = [loop EXCEPT
                   !.st = RecomputeIteration(loop.st, loop.start_date,
                                             loop.end_date, loop.balancing_point),
                   !.iterations = @ + 1]
    /\ UNCHANGED <<index_vars, transfer_vars_but_late, getter, filing, lookup, simple>>

\* the test of the while fails and _recompute returns
Recompute_return ==
    /\ loop.pc = "while"
    /\ loop.st.current_date > loop.end_date
    /\ loop' = [loop EXCEPT !.pc = "done"]
    /\ UNCHANGED <<index_vars, transfer_vars_but_late, getter, filing, lookup, simple>>

-----------------------------------------------------------------------------
(* ComboFilings.recompute (secedgar/filings/combo.py)                      *)

\* date(year, month, 1) raises ValueError unless month is one of 1..12
date_raises(month) == month \notin 1..12

\* `days_to_fetch < 50`: days_to_fetch is the timedelta
\* start_quarter_date - self.start_date, and a timedelta compared for order
\* with an int raises TypeError whatever the two values are.
timedelta_less_than_int(days, n) == [raised |-> "TypeError", value |-> days < n]

\* start_quarter += 1 when start_date is not the first day of its quarter
\* (`TODO wrap around 4 quarters`: 4 becomes 5)
SimpleStartQuarter(sd) ==
    IF Ordinal(YearOf(sd), get_month(get_quarter(sd)), 1) # sd
    THEN get_quarter(sd) + 1
    ELSE get_quarter(sd)

\* `while current_quarter < end_quarter or current_year < self.end_date.year`
\* st = [current_quarter, current_year, master_date_list]
RECURSIVE SimpleQuarters(_, _, _)
SimpleQuarters(st, end_quarter, end_year) ==
    IF st.current_quarter < end_quarter \/ st.current_year < end_year
    THEN LET appended == Append(st.master_date_list,
                                <<st.current_year, st.current_quarter>>)
             wraps    == (st.current_quarter + 1) % 5 = 0
         IN  SimpleQuarters(
                 [current_quarter  |-> IF wraps THEN 1 ELSE st.current_quarter + 1,
                  current_year     |-> IF wraps THEN st.current_year + 1
                                                ELSE st.current_year,
                  master_date_list |-> appended],
                 end_quarter, end_year)
    ELSE st

\* The lists recompute has filled when it returns or raises.
recompute(sd, ed) ==
    LET start_quarter == SimpleStartQuarter(sd)
        end_quarter   == get_quarter(ed)
        raises(e, master, days) ==
            [raised |-> e, master_date_list |-> master, daily_date_list |-> days]
    IN  IF date_raises(get_month(start_quarter))
        THEN raises("ValueError", <<>>, <<>>)
        ELSE
        LET start_quarter_date == Ordinal(YearOf(sd), get_month(start_quarter), 1)
            days_to_fetch      == start_quarter_date - sd
            few                == timedelta_less_than_int(days_to_fetch, 50)
        IN  IF few.raised # "none"
            THEN raises(few.raised, <<>>, <<>>)
            ELSE
            LET head_days   == IF few.value THEN DayEntries(sd, start_quarter_date)
                                            ELSE <<>>
                head_master == IF few.value THEN <<>>
                               ELSE << <<YearOf(sd), start_quarter - 1>> >>
                after       == SimpleQuarters(
                                   [current_quarter  |-> start_quarter,
                                    current_year     |-> YearOf(sd),
                                    master_date_list |-> head_master],
                                   end_quarter, YearOf(ed))
                current_position ==
                    Ordinal(after.current_year, get_month(after.current_quarter), 1)
            IN  raises("none", after.master_date_list,
                       head_days \o DayEntries(current_position, ed + 1))

\* recompute() on a planner whose range is sd .. ed
ComboFilings_recompute(sd, ed) ==
    /\ simple' = [start_date |-> sd, end_date |-> ed] @@ recompute(sd, ed)
    /\ UNCHANGED <<index_vars, transfer_vars_but_late, getter, filing, lookup, loop>>

\* EDGAR publishes the daily index of day d, whose filings the index of the
\* quarter lists from then on.
Publish(d) ==
    /\ d \notin remote
    /\ remote' = remote \cup {d}
    /\ raised' = "none"
    /\ Forget
    /\ UNCHANGED <<built, planner_vars, quarterly, daily, failing, disk, transfer_vars>>

\* an IndexFilings call on the quarterly source has answered r
QuarterlyReturned(r, value, call) ==
    /\ quarterly' = r.src
    /\ raised' = r.raised
    /\ ret' = [raised |-> r.raised, value |-> value]
    /\ prev_ret' = NoReturn
    /\ list_of_dicts' = <<>>
    /\ sub_saves' = <<>>
    /\ daily_save' = NoDailySave
    /\ requests' = <<>>
    /\ calls_in_row' = 0
    /\ last_call' = call
    /\ UNCHANGED <<built, planner_vars, daily, remote, failing, disk, transfer_vars>>

QuarterlyReturnedIndex(r, call) ==
    QuarterlyReturned(r, IF r.raised = "none" THEN r.src.filings_dict[1] ELSE <<>>,
                      call)

\* get_filings_dict(update_cache) on the quarterly source
QuarterlyFilings_get_filings_dict(update_cache) ==
    /\ ~built
    /\ QuarterlyReturnedIndex(get_filings_dict(quarterly, update_cache),
                              IF update_cache
                              THEN "get_filings_dict(update_cache=True)"
                              ELSE "get_filings_dict()")

QuarterlyReturnedUrls(r, call) == QuarterlyReturned(r, r.value, call)

\* get_urls on the quarterly source
QuarterlyFilings_get_urls ==
    /\ ~built
    /\ QuarterlyReturnedUrls(IndexFilings_get_urls(quarterly),
                             IF last_call = "get_filings_dict(update_cache=True)"
                             THEN "get_urls() after update_cache=True"
                             ELSE "get_urls()")

-----------------------------------------------------------------------------
(* Specifications                                                          *)

NoPool ==
    /\ pool = IdlePool
    /\ workers = NoWorkers

NoFetcher == fetcher = IdleFetcher

NoClient == client = UnbuiltClient

NoBulk ==
    /\ extracted_files = {}
    /\ move_queue = <<>>
    /\ fs = <<>>
    /\ callers = [c \in Callers |-> IdleCaller]

\* Nothing is being downloaded.
NoTransfers == NoBulk /\ NoPool /\ NoFetcher /\ NoClient /\ NoLate

Unbuilt ==
    /\ built = FALSE
    /\ raised = "none"
    /\ start_date = FirstIndexDate
    /\ end_date = FirstIndexDate
    /\ balancing_point = DefaultBalancingPoint
    /\ entry_filter = "all"
    /\ quarterly_date_list = <<>>
    /\ daily_date_list = <<>>
    /\ quarterly = NewSource("full-index", YearOf(FirstIndexDate),
                             get_quarter(FirstIndexDate), FirstIndexDate,
                             [pred |-> "all", user |-> "all"])
    /\ disk = {}
    /\ sub_saves = <<>>
    /\ requests = <<>>
    /\ daily_save = NoDailySave
    /\ list_of_dicts = <<>>
    /\ ret = NoReturn
    /\ prev_ret = NoReturn
    /\ calls_in_row = 0
    /\ last_call = "none"

DefaultDaily ==
    NewSource("daily-index", YearOf(FirstIndexDate), get_quarter(FirstIndexDate),
              FirstIndexDate, [pred |-> "all", user |-> "all"])

\* The range planner with its two shared sources, against any remote content.
Init ==
    /\ Unbuilt
    /\ NoTransfers
    /\ daily = DefaultDaily
    /\ remote \in SUBSET IndexDates
    /\ failing = {}

Construct ==
    /\ ~built
    /\ \E sd \in IndexStartDates, ed \in IndexDates,
          bp \in IndexBalancingPoints, f \in EntryFilters :
          ComboFilings_init(sd, ed, bp, f)

\* The dates assigned to start_date and end_date after construction.
AssignedDates == {FirstIndexDate, FirstIndexDate + 1}

Next ==
    \/ Construct
    \/ \E d \in AssignedDates : SetStartDate(d)
    \/ \E d \in AssignedDates : SetEndDate(d)
    \/ \E bp \in IndexBalancingPoints : SetBalancingPoint(bp)
    \/ ComboFilings_get_urls

Spec == Init /\ [][Next]_vars

\* The planner alone, on every range of PlanDates.
InitPlan ==
    /\ Unbuilt
    /\ NoTransfers
    /\ daily = DefaultDaily
    /\ remote = {}
    /\ failing = {}

NextPlan ==
    /\ ~built
    /\ \E sd, ed \in PlanDates, bp \in PlanBalancingPoints :
          ComboFilings_init(sd, ed, bp, "all")

SpecPlan == InitPlan /\ [][NextPlan]_vars

\* One DailyFilings instance whose date field is reassigned between calls.
InitIndex ==
    /\ Unbuilt
    /\ NoTransfers
    /\ remote \in SUBSET IndexDates
    /\ failing = {}
    /\ \E d \in IndexDates, f \in EntryFilters :
          daily = NewSource("daily-index", YearOf(d), get_quarter(d), d,
                            [pred |-> "all", user |-> f])

NextIndex ==
    \/ \E d \in IndexDates : AssignDateField(d)
    \/ DailyFilings_get_urls

SpecIndex == InitIndex /\ [][NextIndex]_vars

\* The index sources at rest, for the specifications of the other components.
IndexIdle ==
    /\ Unbuilt
    /\ daily = DefaultDaily
    /\ remote = {}
    /\ failing = {}

\* The accession numbers of the filings of the bulk archives.
Accessions == {<<"0001000228-20-000001">>, <<"0001000275-20-000002">>}

\* The URL of the filing `accession` of company cik.
FilingUrl(cik, accession) ==
    _prepare_query(<<"Archives/", "edgar/data/">> \o cik \o <<"/">>
                   \o accession \o <<".txt">>)

\* The mappings get_urls may hold: one or two companies, one or two filings.
BulkUrls ==
    {[company \in {Cik1} |-> <<FilingUrl(Cik1, a)>>] : a \in Accessions}
    \cup {[company \in {Cik1} |-> <<FilingUrl(Cik1, a), FilingUrl(Cik1, b)>>] :
             a \in Accessions, b \in Accessions}
    \cup {[company \in {Cik1, Cik2} |->
              IF company = Cik1 THEN <<FilingUrl(Cik1, a)>>
              ELSE <<FilingUrl(Cik2, b)>>] : a \in Accessions, b \in Accessions}

\* The files an archive may hold: a filing under any of the endings, and a
\* file that belongs to no filing.
ArchiveFiles ==
    {a \o <<".", possible_endings[k]>> : a \in Accessions,
                                         k \in DOMAIN possible_endings}
    \cup {<<"README", ".txt">>}

\* An instance that holds its URLs, next to any set of extracted files.
InitMove ==
    /\ Unbuilt
    /\ remote = {}
    /\ failing = {}
    /\ \E urls \in BulkUrls :
          daily = [DefaultDaily EXCEPT !.urls = urls]
    /\ extracted_files \in SUBSET ArchiveFiles
    /\ move_queue = <<>>
    /\ fs = <<>>
    /\ callers = [c \in Callers |-> IdleCaller]
    /\ NoPool /\ NoFetcher /\ NoClient /\ NoLate

NextMove ==
    \E dir_pattern \in {<<"{cik}">>, <<"2", "0", "2", "0", "/", "{cik}">>} :
        IndexFilings_move_to_dest(dir_pattern, << <<"{accession_number}">> >>)

SpecMove == InitMove /\ [][NextMove]_vars

\* One call of _unzip or _move_to_dest with its worker threads.
InitPool ==
    /\ IndexIdle
    /\ NoBulk /\ NoPool /\ NoFetcher /\ NoClient /\ NoLate

NextPool ==
    \/ Producer
    \/ \E w \in WorkerIds : Worker(w)

SpecPool == InitPool /\ [][NextPool]_vars

\* The same, every thread being scheduled again and again.
SpecPoolFair ==
    /\ SpecPool
    /\ WF_vars(Producer)
    /\ \A w \in WorkerIds : WF_vars(Worker(w))

\* The most pairs handed to wait_for_download_async.
MaxPairs == 3

\* The greatest rate_limit tried (10 is the greatest the setter accepts).
MaxRate == 3

\* One call of wait_for_download_async.
InitFetch ==
    /\ IndexIdle
    /\ NoBulk /\ NoPool /\ NoFetcher /\ NoClient /\ NoLate

NextFetch ==
    \/ \E length \in 0..MaxPairs, rate_limit \in 1..MaxRate :
          \E bad \in SUBSET (1..length) :
              wait_for_download_async(length, rate_limit, bad)
    \/ Tick
    \/ FetchNextGroup
    \/ FetchStartTask
    \/ \E k \in 1..MaxPairs : FetchAndSave(k)
    \/ \E k \in 1..MaxPairs : FetchRaises(k)
    \/ FetchGathered
    \/ FetchWake

SpecFetch == InitFetch /\ [][NextFetch]_vars

\* The values tried for the configuration of a NetworkClient.
ConfigValues ==
    {IntValue(n) : n \in {-1, 0, 1, 10, 11}}
    \cup {FloatValue(h) : h \in {-1, 1, 21}}
    \cup {NaN, StrValue, NoneValue}

\* The keyword arguments tried: the defaults, one of them replaced or not.
KwargsTried ==
    {[DefaultKwargs EXCEPT ![name] = value] :
        name \in {"retry_count", "pause", "batch_size", "rate_limit"},
        value \in ConfigValues}
    \cup {DefaultKwargs}

\* One NetworkClient constructed, reconfigured and used.
InitClient ==
    /\ IndexIdle
    /\ NoBulk /\ NoPool /\ NoFetcher /\ NoClient /\ NoLate

NextClient ==
    \/ \E kwargs \in KwargsTried : NetworkClient_init(kwargs)
    \/ \E value \in ConfigValues : SetRetryCount(value)
    \/ \E value \in ConfigValues : SetPause(value)
    \/ \E value \in ConfigValues : SetBatchSize(value)
    \/ \E value \in ConfigValues : SetRateLimit(value)
    \/ ClientPause

SpecClient == InitClient /\ [][NextClient]_vars

\* The days given to a Filing.
FilingDays == {FirstIndexDate, FirstIndexDate + 2}

\* The dates given to a Filing: datetimes, their eight characters as a str
\* and as an int, and strs and ints one character short.
FilingDates ==
    {[type |-> "datetime", ordinal |-> d, text |-> <<>>] : d \in FilingDays}
    \cup {[type |-> t, ordinal |-> 0, text |-> strftime(d, "%Y%m%d")] :
             t \in {"str", "int"}, d \in FilingDays}
    \cup {[type |-> t, ordinal |-> 0, text |-> Tail(strftime(FirstIndexDate, "%Y%m%d"))] :
             t \in {"str", "int"}}

\* One Filing constructed and its dates assigned.
InitFiling ==
    /\ IndexIdle
    /\ NoTransfers

NextFiling ==
    \/ \E start \in {None} \cup {<<date>> : date \in FilingDates},
          end \in FilingDates : Filing_init(start, end)
    \/ \E val \in FilingDates : Filing_set_start_date(val)
    \/ \E val \in FilingDates : Filing_set_end_date(val)

SpecFiling == InitFiling /\ [][NextFiling]_vars

\* What EDGAR's search answers for a term.
SearchAnswers == {"single", "unpadded", "multiple", "EDGARQueryError"}

\* CIK lookups of any terms against any company file.
InitLookup ==
    /\ IndexIdle
    /\ NoTransfers

\* The most terms of one lookup.
MaxLookups == 2

NextLookup ==
    \E lookups \in {l \in SUBSET LookupTerms : Cardinality(l) \in 1..MaxLookups},
       json_response \in SUBSET Companies :
        \E answers \in [lookups -> SearchAnswers] :
            CIKLookup_get_ciks(lookups, json_response, answers)

SpecLookup == InitLookup /\ [][NextLookup]_vars

\* The balancing points the loop is followed with.
LoopBalancingPoints == {0, 1, 3, DefaultBalancingPoint}

\* The loop is followed on NumLoopDays consecutive days around the quarter
\* boundary 2020-01-01 and on the days of IndexDates, around 2020-04-01.
NumLoopDays == 10

LoopDates ==
    (Ordinal(2019, 12, 27) .. (Ordinal(2019, 12, 27) + NumLoopDays - 1))
    \cup IndexDates

\* _recompute followed iteration by iteration on every range of LoopDates.
InitLoop ==
    /\ IndexIdle
    /\ NoTransfers

NextLoop ==
    \/ \E sd, ed \in LoopDates, bp \in LoopBalancingPoints :
          sd <= ed /\ Recompute_begin(sd, ed, bp)
    \/ Recompute_iterate
    \/ Recompute_return

SpecLoop == InitLoop /\ [][NextLoop]_vars

\* The same, the loop being given its turn again and again.
SpecLoopFair == SpecLoop /\ WF_vars(Recompute_iterate \/ Recompute_return)

\* recompute on every range of LoopDates.
InitSimple ==
    /\ IndexIdle
    /\ NoTransfers

NextSimple ==
    \E sd, ed \in LoopDates : sd <= ed /\ ComboFilings_recompute(sd, ed)

SpecSimple == InitSimple /\ [][NextSimple]_vars

\* The greatest retry_count tried.
MaxRetry == 2

\* Calls of get_response, one after the other, against any responses.
InitGet ==
    /\ IndexIdle
    /\ NoTransfers

NextGet ==
    \/ \E retry_count \in 0..MaxRetry : get_response(retry_count)
    \/ \E response \in Responses : GetResponseAttempt(response)
    \/ GetResponseReturn

SpecGet == InitGet /\ [][NextGet]_vars

\* The patterns DailyFilings.save is called with: the defaults (None) and
\* the patterns built from {date} and {cik}.
DirPatterns ==
    {None, << <<"{date}">> >>, << <<"{cik}">> >>,
     << <<"{date}", "/", "{cik}">> >>, << <<"{cik}", "/", "{date}">> >>,
     << <<"by-day-", "{date}", "/", "{cik}">> >>}

FilePatterns == {None, << <<"{accession_number}">> >>}

DateFormats == {"%Y%m%d", "%Y-%m-%d"}

\* Two threads saving in bulk-archive mode into one directory, which may
\* hold an extraction directory left by an earlier call.
InitBulk ==
    /\ IndexIdle
    /\ extracted_files = {}
    /\ move_queue = <<>>
    /\ fs \in {<<>>, [dir \in {<<"temp">>} |-> {"leftover"}]}
    /\ callers = [c \in Callers |-> IdleCaller]
    /\ NoPool /\ NoFetcher /\ NoClient /\ NoLate

NextBulk ==
    \E c \in Callers :
        \/ \E file_pattern \in FilePatterns : BulkStart(c, file_pattern)
        \/ BulkExists(c)
        \/ BulkMakePath(c)
        \/ BulkUnzip(c)
        \/ BulkUnzipRaises(c)
        \/ BulkMoveToDest(c)
        \/ BulkRmtree(c)

SpecBulk == InitBulk /\ [][NextBulk]_vars

\* One DailyFilings instance saving its filings file by file.
InitDailySave ==
    /\ Unbuilt
    /\ NoTransfers
    /\ remote \in SUBSET IndexDates
    /\ failing = {}
    /\ \E d \in IndexDates, f \in EntryFilters :
          daily = NewSource("daily-index", YearOf(d), get_quarter(d), d,
                            [pred |-> "all", user |-> f])

NextDailySave ==
    \E dir_pattern \in DirPatterns, file_pattern \in FilePatterns,
       date_format \in DateFormats :
        DailyFilings_save(dir_pattern, file_pattern, date_format)

SpecDailySave == InitDailySave /\ [][NextDailySave]_vars

\* The requests of a DailyFilings instance that may fail: the listings of the
\* quarters of IndexDates and the index files of its days.
DailyRequests ==
    {<<(<<"daily-index", YearOf(d), get_quarter(d)>>), <<>> >> : d \in IndexDates}
    \cup {<<(<<"daily-index", YearOf(d), get_quarter(d)>>), DailyIdxFilename(d)>> :
             d \in IndexDates}

\* One DailyFilings instance locating its index file while days are
\* published and its date field reassigned, at most one request failing.
InitLocate ==
    /\ Unbuilt
    /\ NoTransfers
    /\ remote \in SUBSET IndexDates
    /\ failing \in {{}} \cup {{request} : request \in DailyRequests}
    /\ \E d \in IndexDates :
          daily = NewSource("daily-index", YearOf(d), get_quarter(d), d,
                            [pred |-> "all", user |-> "all"])

NextLocate ==
    \/ \E d \in IndexDates : AssignDateField(d)
    \/ \E d \in IndexDates : Publish(d)
    \/ \E update_cache \in BOOLEAN : DailyFilings_get_master_idx_file(update_cache)
    \/ DailyFilings_get_urls

SpecLocate == InitLocate /\ [][NextLocate]_vars

\* The values given as date to DailyFilings: datetimes, and the ordinal of
\* a day as a float, as an int and written out in a str.
DateValues ==
    {[type |-> t, ordinal |-> d] :
        t \in {"datetime", "float", "int", "str"}, d \in IndexDates}

\* DailyFilings instances constructed and used, one after the other.
NextConstruct ==
    \/ \E date \in DateValues : DailyFilings_init(date, "all")
    \/ \E d \in IndexDates : Publish(d)
    \/ \E update_cache \in BOOLEAN : DailyFilings_get_master_idx_file(update_cache)
    \/ DailyFilings_get_urls

SpecConstruct == InitLocate /\ [][NextConstruct]_vars

\* The index files whose request may fail: those of the days of IndexDates
\* and of their quarters.
FailingRequests ==
    {<<(<<"daily-index", YearOf(d), get_quarter(d)>>), DailyIdxFilename(d)>> :
        d \in IndexDates}
    \cup {<<(<<"full-index", YearOf(d), get_quarter(d)>>), QuarterlyIdxFilename>> :
             d \in IndexDates}

\* The range planner saving and listing against any remote content, at most
\* one index file of which cannot be fetched.
InitSave ==
    /\ Unbuilt
    /\ NoTransfers
    /\ daily = DefaultDaily
    /\ remote \in SUBSET IndexDates
    /\ failing \in {{}} \cup {{request} : request \in FailingRequests}

NextSave ==
    \/ Construct
    \/ ComboFilings_get_urls
    \/ ComboFilings_save

SpecSave == InitSave /\ [][NextSave]_vars

\* Index texts of at most MaxLines rows.
MaxLines == 3

SampleDate == IsoDateOf(2020, 1, 15)

\* The rows the index texts are made of: three filings of two companies, a
\* line of four fields, a line without a date and a line whose company name
\* holds a pipe.
ParseRows ==
    { DatedLine(Cik1, SampleDate),
      PipeJoin(<<Cik1, <<"ACME CORP">>, <<"8-K">>, SampleDate,
                 <<"edgar/data/">> \o Cik1 \o <<"/abc.txt">> >>),
      DatedLine(Cik2, SampleDate),
      PipeJoin(<<Cik1, <<"ACME CORP">>, SampleDate, <<"edgar/data/abc.txt">> >>),
      PipeJoin(<<Cik2, <<"ACME CORP">>, <<"10-K">>, <<"Date Filed">>,
                 <<"edgar/data/abc.txt">> >>),
      PipeJoin(<<Cik2, <<"ACME">>, <<"CORP">>, <<"10-K">>, SampleDate,
                 <<"edgar/data/abc.txt">> >>) }

\* What comes before the rows: nothing, or a description line, the column
\* header and the separator.
ParseHeaders ==
    { <<>>,
      << <<"Description: Master Index of EDGAR Dissemination Feed">> >>
         \o IdxHeader }

ParseTexts ==
    {header \o rows : header \in ParseHeaders,
                      rows \in UNION {[1..n -> ParseRows] : n \in 0..MaxLines}}

ParseFilters == {"None", "all", "cik1", "10-K", "never"}

\* The source once it has fetched its listing and its index file, of text
\* idx_file.
Fetched(src, idx_file) ==
    [src EXCEPT !.listings_directory = <<{idx_filename(src)}>>,
                !.master_idx_file = <<idx_file>>]

\* One DailyFilings instance that has fetched an index file of any text.
InitParse ==
    /\ Unbuilt
    /\ NoTransfers
    /\ remote = {FirstIndexDate}
    /\ failing = {}
    /\ \E idx_file \in ParseTexts, f \in ParseFilters :
          daily = Fetched(NewSource("daily-index", YearOf(FirstIndexDate),
                                    get_quarter(FirstIndexDate), FirstIndexDate,
                                    [pred |-> "all", user |-> f]),
                          idx_file)

NextParse ==
    \/ \E update_cache \in BOOLEAN : DailyFilings_get_filings_dict(update_cache)
    \/ DailyFilings_get_urls

SpecParse == InitParse /\ [][NextParse]_vars

\* The source of one quarter, called while EDGAR publishes more of its days.
InitRefresh ==
    /\ Unbuilt
    /\ NoTransfers
    /\ daily = DefaultDaily
    /\ remote \in SUBSET IndexDates
    /\ failing = {}

NextRefresh ==
    \/ \E d \in IndexDates : Publish(d)
    \/ \E update_cache \in BOOLEAN : QuarterlyFilings_get_filings_dict(update_cache)
    \/ QuarterlyFilings_get_urls

SpecRefresh == InitRefresh /\ [][NextRefresh]_vars

\* The filename date is explored NumFormatDays days on each side of the two
\* format changes.
NumFormatDays == 90

FormatDates ==
    ((Ordinal(1995, 1, 1) - NumFormatDays) .. (Ordinal(1995, 1, 1) + NumFormatDays))
    \cup
    ((Ordinal(1998, 3, 31) - NumFormatDays) .. (Ordinal(1998, 3, 31) + NumFormatDays))

\* One DailyFilings instance of any date of FormatDates.
InitFormat ==
    /\ Unbuilt
    /\ NoTransfers
    /\ remote = {}
    /\ failing = {}
    /\ \E d \in FormatDates :
          daily = NewSource("daily-index", YearOf(d), get_quarter(d), d,
                            [pred |-> "all", user |-> "all"])

NextFormat == DailyFilings_get_idx_formatted_date

SpecFormat == InitFormat /\ [][NextFormat]_vars

-----------------------------------------------------------------------------
(* Properties of the plan                                                  *)

\* A quarter triple covers date d when d lies in its quarter and its
\* predicate accepts an entry filed on d.
TripleCovers(t, d) ==
    /\ InQuarter(d, t.year, t.quarter)
    /\ PredAccepts(t.pred, d, start_date, end_date)

DayEntryCount(d) ==
    Cardinality({i \in DOMAIN daily_date_list : daily_date_list[i] = d})

TripleCount(d) ==
    Cardinality({i \in DOMAIN quarterly_date_list :
                    TripleCovers(quarterly_date_list[i], d)})

QuarterDates(t) ==
    QuarterStartDate(<<t.year, t.quarter>>) ..
        (QuarterStartDate(add_quarter(t.year, t.quarter)) - 1)

Planned == built /\ start_date <= end_date

\* C1: after _recompute every date of [start_date, end_date] is covered by
\* exactly one mechanism, a single day entry or a single quarter triple whose
\* predicate accepts it; none is covered twice and none is left out.
C1_ExactTiling ==
    Planned =>
        \A d \in start_date..end_date : DayEntryCount(d) + TripleCount(d) = 1

\* C2: the plan covers no date outside [start_date, end_date]: no day entry
\* lies outside the range and no quarter triple accepts a date filed before
\* start_date or after end_date.
C2_NothingOutsideRange ==
    Planned =>
        /\ \A i \in DOMAIN daily_date_list :
              start_date <= daily_date_list[i] /\ daily_date_list[i] <= end_date
        /\ \A i \in DOMAIN quarterly_date_list :
              \A d \in QuarterDates(quarterly_date_list[i]) :
                  TripleCovers(quarterly_date_list[i], d)
                      => (start_date <= d /\ d <= end_date)

\* C3: constructing ComboFilings with start_date > end_date fails with
\* ValueError, so no constructed planner has a reversed range.
C3_ReversedRangeRaises ==
    (start_date > end_date) => (~built /\ raised = "ValueError")

\* C4: a range that ends before the next quarter boundary and spans at most
\* balancing_point days is resolved by one day entry per date, in ascending
\* order, and no quarter triple (2020-01-06 .. 2020-01-10 with 30 is one).
C4_ShortRangeIsDaily ==
    (/\ Planned
     /\ end_date < NextStartQuarterDate(start_date)
     /\ end_date - start_date <= balancing_point)
    => /\ quarterly_date_list = <<>>
       /\ daily_date_list = [i \in 1..(end_date - start_date + 1) |->
                                start_date + i - 1]

C4_Witness ==
    /\ built
    /\ start_date = Ordinal(2020, 1, 6)
    /\ end_date = Ordinal(2020, 1, 10)
    /\ balancing_point = DefaultBalancingPoint
    /\ quarterly_date_list = <<>>
    /\ daily_date_list = <<Ordinal(2020, 1, 6), Ordinal(2020, 1, 7),
                           Ordinal(2020, 1, 8), Ordinal(2020, 1, 9),
                           Ordinal(2020, 1, 10)>>

WholeQuarter ==
    /\ Planned
    /\ start_date = CurrentStartQuarterDate(start_date)
    /\ end_date = NextStartQuarterDate(start_date) - 1

OneUnfilteredTriple ==
    /\ quarterly_date_list = <<Triple(start_date, "all")>>
    /\ daily_date_list = <<>>

\* C5 as stated: a range that is exactly one whole calendar quarter with
\* more days than balancing_point yields exactly that one unfiltered triple
\* and no day entry.
C5_WholeQuarterLongerThanBalancingPoint ==
    (WholeQuarter /\ end_date - start_date + 1 > balancing_point)
        => OneUnfilteredTriple

\* C5 amended: a range that is exactly one whole calendar quarter whose
\* days_till_end (end_date - start_date) exceeds balancing_point yields
\* exactly that one unfiltered triple and no day entry (2020-01-01 ..
\* 2020-03-31 with the default 30 is one).
C5_WholeQuarterIsOneTriple ==
    (WholeQuarter /\ end_date - start_date > balancing_point)
        => OneUnfilteredTriple

C5_Witness ==
    /\ built
    /\ start_date = Ordinal(2020, 1, 1)
    /\ end_date = Ordinal(2020, 3, 31)
    /\ balancing_point = DefaultBalancingPoint
    /\ quarterly_date_list = <<[year |-> 2020, quarter |-> 1, pred |-> "all"]>>
    /\ daily_date_list = <<>>

DayEntriesWith(bp) ==
    Len(_recompute(start_date, end_date, bp).daily_date_list)

\* C6 as stated: for a fixed range, a smaller balancing_point never gives
\* fewer day entries than a larger one.
C6_SmallerBalancingPointMoreDays ==
    Planned =>
        \A b2 \in PlanBalancingPoints :
            balancing_point < b2 => Len(daily_date_list) >= DayEntriesWith(b2)

\* C6 amended: for a fixed range, a larger balancing_point never gives fewer
\* day entries than a smaller one.
C6_LargerBalancingPointMoreDays ==
    Planned =>
        \A b2 \in PlanBalancingPoints :
            balancing_point < b2 => Len(daily_date_list) <= DayEntriesWith(b2)

\* a range whose number of day entries grows with the balancing point
C6_Witness ==
    /\ Planned
    /\ quarterly_date_list # <<>>
    /\ \E b2 \in PlanBalancingPoints :
          balancing_point < b2 /\ Len(daily_date_list) < DayEntriesWith(b2)

-----------------------------------------------------------------------------
(* Properties of ComboFilings.get_urls and of the index sources            *)

\* C7: after any sequence of assignments to start_date, end_date or
\* balancing_point, quarterly_date_list and daily_date_list are the plan
\* _recompute yields for the current three values.
C7_PlanIsCurrent ==
    built =>
        /\ quarterly_date_list =
              _recompute(start_date, end_date, balancing_point).quarterly_date_list
        /\ daily_date_list =
              _recompute(start_date, end_date, balancing_point).daily_date_list

C9_KeyChangeInvalidates ==
    last_call = "DailyFilings.get_urls" => ret = FreshUrls(daily)

SubCallLen(i, key) ==
    IF key \in DOMAIN list_of_dicts[i] THEN Len(list_of_dicts[i][key]) ELSE 0

\* the URLs the sub-calls before the i-th returned for key
RECURSIVE LenBefore(_, _)
LenBefore(i, key) ==
    IF i = 1 THEN 0 ELSE LenBefore(i - 1, key) + SubCallLen(i - 1, key)

Merged == last_call = "ComboFilings.get_urls" /\ ret.raised = "none"

\* C10: ComboFilings.get_urls returns, for every cik, the concatenation of
\* the URL sequences the sub-calls returned for it, each in its own order:
\* the keys are the union of the sub-calls' keys, every sub-call's sequence
\* is a block of the result, the number of URLs is the sum over the
\* sub-calls, and the sources' memoized mappings are left as the sub-calls
\* returned them.
C10_MergeConcatenates ==
    Merged =>
        /\ DOMAIN ret.value =
              UNION {DOMAIN list_of_dicts[i] : i \in DOMAIN list_of_dicts}
        /\ \A key \in DOMAIN ret.value :
              Len(ret.value[key]) = LenBefore(Len(list_of_dicts) + 1, key)
        /\ \A i \in DOMAIN list_of_dicts :
              \A key \in DOMAIN list_of_dicts[i] :
                  \A j \in 1..Len(list_of_dicts[i][key]) :
                      ret.value[key][LenBefore(i, key) + j] = list_of_dicts[i][key][j]
        /\ quarterly_date_list # <<>>
              => DOMAIN quarterly.urls = DOMAIN list_of_dicts[Len(quarterly_date_list)]
                 /\ \A key \in DOMAIN quarterly.urls :
                       quarterly.urls[key] =
                           list_of_dicts[Len(quarterly_date_list)][key]
        /\ (/\ daily_date_list # <<>>
            /\ Len(list_of_dicts) = Len(quarterly_date_list) + Len(daily_date_list))
              => DOMAIN daily.urls = DOMAIN list_of_dicts[Len(list_of_dicts)]
                 /\ \A key \in DOMAIN daily.urls :
                       daily.urls[key] = list_of_dicts[Len(list_of_dicts)][key]

\* a merge of a quarterly and a daily sub-call result that share a cik, with
\* another cik missing from one of them and one day skipped as not found
C10_Witness ==
    /\ Merged
    /\ quarterly_date_list # <<>>
    /\ Len(quarterly_date_list) < Len(list_of_dicts)
    /\ Len(list_of_dicts) < Len(quarterly_date_list) + Len(daily_date_list)
    /\ \E key \in DOMAIN ret.value :
          \A i \in DOMAIN list_of_dicts : key \in DOMAIN list_of_dicts[i]
    /\ \E key \in DOMAIN ret.value :
          \E i \in DOMAIN list_of_dicts : key \notin DOMAIN list_of_dicts[i]

-----------------------------------------------------------------------------
(* Properties of the filters and of the index parser                       *)

\* The lines of the days of IndexDates from d on that EDGAR lists in the
\* quarter of triple t and that the boundary predicate of t accepts.
RECURSIVE AcceptedLines(_, _)
AcceptedLines(d, t) ==
    IF d \notin IndexDates THEN <<>>
    ELSE (IF d \in remote /\ TripleCovers(t, d) THEN DayLines(d) ELSE <<>>)
         \o AcceptedLines(d + 1, t)

\* The URLs of the entries of quarter triple t that its boundary predicate
\* and the caller's entry_filter both accept.
ExpectedQuarterUrls(t) ==
    UrlsOf(ParseEntries(AcceptedLines(FirstIndexDate, t), 1,
                        [pred |-> "all", user |-> entry_filter], <<>>).filings_dict)

\* C14: for every quarter triple ComboFilings.get_urls processes, the filter
\* in force on the quarterly source during the sub-call accepts an entry iff
\* the boundary predicate of that triple and the caller's entry_filter both
\* accept it: unless a quarter's index file is missing, the call returns and
\* the i-th sub-call result holds exactly the URLs of those entries.
C14_QuarterFilterIsConjunction ==
    (last_call = "ComboFilings.get_urls" /\ ret.raised # "EDGARQueryError")
    => /\ ret.raised = "none"
       /\ \A i \in DOMAIN quarterly_date_list :
              list_of_dicts[i] = ExpectedQuarterUrls(quarterly_date_list[i])

NonEmptyField(fields, i) == Len(fields[i]) > 0

\* A data row: five pipe-delimited fields, none empty, the first all digits
\* and the fourth date-shaped.
QualifyingFields(fields) ==
    /\ Len(fields) = 5
    /\ \A i \in 1..5 : NonEmptyField(fields, i)
    /\ AllIn(fields[1], 1, Len(fields[1]), DigitChars)
    /\ AllIn(fields[4], 1, Len(fields[4]), DateChars)

\* The entry of a data row.
EntryOfFields(fields) ==
    [cik |-> fields[1], company_name |-> fields[2], form_type |-> fields[3],
     date_filed |-> fields[4], file_name |-> fields[5],
     path |-> <<"Archives/">> \o fields[5]]

\* The source's filter accepts the entry (no filter accepts every entry).
Accepts(filter, entry) ==
    filter.user = "None" \/ (filter.pred = "all" /\ UserAccepts(filter.user, entry))

\* The line is a data row whose entry the filter accepts.
Wanted(filter, fields) ==
    QualifyingFields(fields) /\ Accepts(filter, EntryOfFields(fields))

WantedLine(filter, line) == Wanted(filter, split(line, "|"))

\* The ciks of the wanted lines of the text.
WantedCiks(idx_file, filter) ==
    {split(idx_file[i], "|")[1] :
        i \in {j \in DOMAIN idx_file : WantedLine(filter, idx_file[j])}}

\* The wanted lines of cik, in file order.
WantedOf(idx_file, filter, cik) ==
    LET Test(line) == WantedLine(filter, line) /\ split(line, "|")[1] = cik
    IN  SelectSeq(idx_file, Test)

\* The FilingIndex of the text: per cik, the entries of its wanted lines.
ExpectedIndex(idx_file, filter) ==
    [cik \in WantedCiks(idx_file, filter) |->
        [i \in 1..Len(WantedOf(idx_file, filter, cik)) |->
            EntryOfFields(split(WantedOf(idx_file, filter, cik)[i], "|"))]]

\* The index text the DailyFilings instance holds.
IdxFile == daily.master_idx_file[1]

\* C17: get_filings_dict maps the index text to a FilingIndex that holds
\* exactly one FilingEntry per data row (five pipe-delimited fields, all-digit
\* first field, date-shaped fourth field) the filter accepts, with path =
\* "Archives/" + file_name, grouped by cik in file order; any other line
\* contributes nothing and no text makes the call raise.
C17_ParsesDataRows ==
    last_call = "DailyFilings.get_filings_dict"
    => /\ ret.raised = "none"
       /\ ret.value = ExpectedIndex(IdxFile, daily.entry_filter)

\* Every line the index pattern matches has five fields.
WellFormed(idx_file) ==
    \A i \in DOMAIN idx_file :
        EntryPattern(idx_file[i]) => Len(split(idx_file[i], "|")) = 5

Answered ==
    /\ last_call \in {"DailyFilings.get_filings_dict", "DailyFilings.get_urls"}
    /\ WellFormed(IdxFile)

TotalLen(mapping) ==
    LET RECURSIVE Sum(_)
        Sum(keys) == IF keys = {} THEN 0
                     ELSE LET k == CHOOSE x \in keys : TRUE
                          IN  Len(mapping[k]) + Sum(keys \ {k})
    IN  Sum(DOMAIN mapping)

WantedCount(idx_file, filter) ==
    Cardinality({j \in DOMAIN idx_file : WantedLine(filter, idx_file[j])})

\* C18: for every entry_filter, the FilingIndex and the get_urls mapping
\* hold an entry / a URL iff the filter accepts the entry (no filter accepts
\* all): the keys are the ciks with an accepted entry, no key maps to an
\* empty list, nothing accepted is missing, every entry held is accepted,
\* and an always-false filter yields an empty mapping.
C18_FilterDecidesMembership ==
    Answered =>
        /\ ret.raised = "none"
        /\ DOMAIN ret.value = WantedCiks(IdxFile, daily.entry_filter)
        /\ \A cik \in DOMAIN ret.value :
              /\ Len(ret.value[cik]) > 0
              /\ Len(ret.value[cik]) =
                     Len(WantedOf(IdxFile, daily.entry_filter, cik))
        /\ TotalLen(ret.value) = WantedCount(IdxFile, daily.entry_filter)
        /\ \A cik \in DOMAIN daily.filings_dict[1] :
              \A i \in DOMAIN daily.filings_dict[1][cik] :
                  /\ daily.filings_dict[1][cik][i].cik = cik
                  /\ Accepts(daily.entry_filter, daily.filings_dict[1][cik][i])
        /\ daily.entry_filter.user = "never" => DOMAIN ret.value = {}
        /\ daily.entry_filter.user = "None"
              => TotalLen(ret.value) =
                    WantedCount(IdxFile, [pred |-> "all", user |-> "all"])

\* get_urls with a filter that keeps one of the two companies found in the
\* text and drops the other
C18_Witness ==
    /\ last_call = "DailyFilings.get_urls"
    /\ WellFormed(IdxFile)
    /\ daily.entry_filter.user = "cik1"
    /\ DOMAIN ret.value = {Cik1}
    /\ Len(ret.value[Cik1]) = 2
    /\ WantedCiks(IdxFile, [pred |-> "all", user |-> "all"]) = {Cik1, Cik2}

\* C19: IndexFilings.get_urls returns a mapping with exactly the keys of the
\* FilingIndex; for each cik the URL list is as long as the cik's entries
\* and in their order, the i-th URL being "http://www.sec.gov/" followed by
\* "Archives/" and the file_name of the i-th entry.
C19_UrlsFollowIndex ==
    (last_call = "DailyFilings.get_urls" /\ ret.raised = "none") =>
        /\ DOMAIN ret.value = DOMAIN daily.filings_dict[1]
        /\ \A cik \in DOMAIN ret.value :
              /\ Len(ret.value[cik]) = Len(daily.filings_dict[1][cik])
              /\ \A i \in DOMAIN ret.value[cik] :
                    ret.value[cik][i] =
                        <<"http://www.sec.gov/", "Archives/">>
                            \o daily.filings_dict[1][cik][i].file_name

\* get_urls returned two URLs of different files for one company and one
\* URL for another
C19_Witness ==
    /\ last_call = "DailyFilings.get_urls"
    /\ ret.raised = "none"
    /\ DOMAIN ret.value = {Cik1, Cik2}
    /\ Len(ret.value[Cik1]) = 2
    /\ ret.value[Cik1][1] # ret.value[Cik1][2]
    /\ Len(ret.value[Cik2]) = 1

-----------------------------------------------------------------------------
(* Properties of the daily index filename                                  *)

Formatted == last_call = "DailyFilings._get_idx_formatted_date"

MMDDYY(d) == Digits2(MonthOf(d)) \o Digits2(DayOf(d)) \o Digits2(YearOf(d))

YYMMDD(d) == Digits2(YearOf(d)) \o Digits2(MonthOf(d)) \o Digits2(DayOf(d))

YYYYMMDD(d) == Digits4(YearOf(d)) \o Digits2(MonthOf(d)) \o Digits2(DayOf(d))

FormattedAs(d, digits) == (Formatted /\ daily.date = d) => ret.value = digits

\* C15: the filename date is MMDDYY for every date before 1995-01-01, YYMMDD
\* from 1995-01-01 through 1998-03-31 inclusive and YYYYMMDD from 1998-04-01
\* on: 1994-12-31 is "123194", 1995-01-01 "950101", 1998-03-31 "980331" and
\* 1998-04-01 "19980401".
C15_SixDigitsThroughMarch31 ==
    /\ Formatted =>
          ret.value = IF daily.date < Ordinal(1995, 1, 1) THEN MMDDYY(daily.date)
                      ELSE IF daily.date <= Ordinal(1998, 3, 31)
                      THEN YYMMDD(daily.date)
                      ELSE YYYYMMDD(daily.date)
    /\ FormattedAs(Ordinal(1994, 12, 31), <<1, 2, 3, 1, 9, 4>>)
    /\ FormattedAs(Ordinal(1995, 1, 1), <<9, 5, 0, 1, 0, 1>>)
    /\ FormattedAs(Ordinal(1998, 3, 31), <<9, 8, 0, 3, 3, 1>>)
    /\ FormattedAs(Ordinal(1998, 4, 1), <<1, 9, 9, 8, 0, 4, 0, 1>>)

-----------------------------------------------------------------------------
(* Properties of update_cache                                              *)

\* What a fresh source with the key and filter of src answers to
\* get_filings_dict.
FreshIndexOf(r) ==
    [raised |-> r.raised,
     value  |-> IF r.raised = "none" THEN r.src.filings_dict[1] ELSE <<>>]

FreshIndex(src) ==
    FreshIndexOf(get_filings_dict(
                     NewSource(src.kind, src.year, src.quarter, src.date,
                               src.entry_filter), FALSE))

\* C20: get_filings_dict(update_cache=True) rebuilds the FilingIndex from
\* index-file content fetched anew from the transport client, so it answers
\* as a fresh source does, and a get_urls that follows answers from the
\* rebuilt FilingIndex, as a fresh source does, not from the URLs memoized
\* before.
C20_UpdateCacheFetchesAnew ==
    /\ last_call = "get_filings_dict(update_cache=True)"
          => ret = FreshIndex(quarterly)
    /\ last_call = "get_urls() after update_cache=True"
          => ret = FreshUrls(quarterly)

-----------------------------------------------------------------------------
(* Properties of the error handling of the range operations                *)

\* The index file of the quarter of triple t is listed.
QuarterPublished(t) == \E d \in remote : InQuarter(d, t.year, t.quarter)

DayPublished(d) == d \in remote

\* The URLs of the filings of day d that the caller's entry_filter accepts.
ExpectedDayUrls(d) ==
    UrlsOf(ParseEntries(DayLines(d), 1,
                        [pred |-> "all", user |-> entry_filter], <<>>).filings_dict)

PublishedDays == SelectSeq(daily_date_list, DayPublished)

\* One mapping per quarter triple, then one per day entry whose index file
\* exists, in the order of the plan.
ExpectedSubCalls ==
    [i \in 1..(Len(quarterly_date_list) + Len(PublishedDays)) |->
        IF i <= Len(quarterly_date_list)
        THEN ExpectedQuarterUrls(quarterly_date_list[i])
        ELSE ExpectedDayUrls(PublishedDays[i - Len(quarterly_date_list)])]

ExpectedFiles ==
    UNION {Links(ExpectedSubCalls[i]) : i \in DOMAIN ExpectedSubCalls}

\* Every request is answered and every quarter triple is served: its index
\* file is listed and its filter is the caller's.
QuartersServed ==
    /\ failing = {}
    /\ \A i \in DOMAIN quarterly_date_list :
          /\ quarterly_date_list[i].pred = "all"
          /\ QuarterPublished(quarterly_date_list[i])

\* the sub-call of the i-th day entry
DaySave(i) == sub_saves[Len(quarterly_date_list) + i]

\* C11: in ComboFilings.get_urls and ComboFilings.save a day entry whose
\* index file is absent is skipped and the remaining day entries are still
\* processed: when the quarter triples are served, the call does not raise,
\* get_urls collects the mappings of every quarter triple and of every day
\* entry whose index file exists, in plan order, and save makes one sub-call
\* per period, only those of the absent days ending in the not-found error,
\* and leaves the files of all the other periods on disk.
C11_AbsentDaysSkipped ==
    /\ (last_call = "ComboFilings.get_urls" /\ QuartersServed)
          => /\ ret.raised = "none"
             /\ list_of_dicts = ExpectedSubCalls
             /\ ret.value = reduce(ExpectedSubCalls, 1, <<>>)
    /\ (last_call = "ComboFilings.save" /\ QuartersServed)
          => /\ ret.raised = "none"
             /\ Len(sub_saves) = Len(quarterly_date_list) + Len(daily_date_list)
             /\ \A i \in DOMAIN daily_date_list :
                   DaySave(i).raised = IF DayPublished(daily_date_list[i])
                                       THEN "none" ELSE "EDGARQueryError"
             /\ disk = ExpectedFiles

\* a save of a quarter triple and of day entries, the first of them absent
\* and a later one present, whose files are on disk
C11_Witness ==
    /\ last_call = "ComboFilings.save"
    /\ QuartersServed
    /\ quarterly_date_list # <<>>
    /\ Len(daily_date_list) >= 2
    /\ ~DayPublished(daily_date_list[1])
    /\ DayPublished(daily_date_list[Len(daily_date_list)])
    /\ DaySave(1).raised = "EDGARQueryError"
    /\ Links(ExpectedDayUrls(daily_date_list[Len(daily_date_list)])) # {}
    /\ Links(ExpectedDayUrls(daily_date_list[Len(daily_date_list)])) \subseteq disk

\* The i-th sub-call of the last save requested an index file that is listed
\* and whose request failed in transport.
TransportFailure(i) ==
    /\ sub_saves[i].period \in failing
    /\ sub_saves[i].period[2] \in RemoteListing(sub_saves[i].period[1])

\* C12: a range save aborts on the first transport failure that is not a
\* not-found condition, in a quarter period or in a day period: the error
\* reaches the caller of ComboFilings.save and the failed sub-call is the
\* last one made.
C12_SaveAbortsOnTransportFailure ==
    last_call = "ComboFilings.save" =>
        \A i \in DOMAIN sub_saves :
            TransportFailure(i) => /\ ret.raised = "EDGARQueryError"
                                   /\ i = Len(sub_saves)

\* C13: a range save omits every period of the plan that has no filings,
\* quarter triples as well as day entries: when every request is answered
\* and the quarter filters are the caller's, ComboFilings.save does not raise
\* and makes one sub-call per period of the plan, absent quarters included.
C13_AbsentQuarterSkipped ==
    (/\ last_call = "ComboFilings.save"
     /\ failing = {}
     /\ \A i \in DOMAIN quarterly_date_list : quarterly_date_list[i].pred = "all")
    => /\ ret.raised = "none"
       /\ Len(sub_saves) = Len(quarterly_date_list) + Len(daily_date_list)

-----------------------------------------------------------------------------
(* Properties of _get_master_idx_file                                      *)

LocateCalls == {"DailyFilings._get_master_idx_file(update_cache=True)",
                "DailyFilings._get_master_idx_file()"}

\* The instance holds a listing response and idx_filename is in it.
Listed(src) ==
    /\ src.listings_directory # None
    /\ idx_filename(src) \in src.listings_directory[1]

\* The call that ends in the primed state looked for idx_filename in the
\* listing response and did not find it.
FilenameAbsent ==
    /\ daily.master_idx_file = None
          \/ last_call' = "DailyFilings._get_master_idx_file(update_cache=True)"
    /\ daily'.listings_directory # None
    /\ idx_filename(daily) \notin daily'.listings_directory[1]

\* C21: the index-file request is issued only once the instance has the
\* listing-directory response and that response contains idx_filename, after
\* the listing request if the call issued one; when the filename is absent,
\* _get_master_idx_file raises the query error, issues no index-file request
\* and leaves the cached index text, the FilingIndex and the URL memo as they
\* were.
C21_RequestsFileOnlyWhenListed ==
    [][last_call' \in LocateCalls =>
          /\ \A i \in DOMAIN requests' :
                requests'[i] = PeriodKey(daily)
                => /\ Listed(daily')
                   /\ \A j \in DOMAIN requests' :
                         requests'[j] = ListingKey(daily) => j < i
          /\ FilenameAbsent
                => /\ ret'.raised = "EDGARQueryError"
                   /\ \A i \in DOMAIN requests' : requests'[i] # PeriodKey(daily)
                   /\ daily'.master_idx_file = daily.master_idx_file
                   /\ daily'.filings_dict = daily.filings_dict
                   /\ daily'.urls = daily.urls]_vars

\* a call that raised for a filename missing from the listing, on an
\* instance that holds an index text, a FilingIndex and memoized URLs
C21_Witness ==
    /\ last_call \in LocateCalls
    /\ ret.raised = "EDGARQueryError"
    /\ daily.listings_directory # None
    /\ ~Listed(daily)
    /\ daily.master_idx_file # None
    /\ daily.filings_dict # None
    /\ DOMAIN daily.urls # {}

-----------------------------------------------------------------------------
(* Properties of DailyFilings.save                                         *)

\* directory / dir_pattern with {date} and {cik} replaced / file_pattern
\* with {accession_number} replaced, None standing for the defaults.
ExpectedPath(company, link) ==
    join(join(Directory,
              format(IF daily_save.dir_pattern = None THEN <<"{date}", "/", "{cik}">>
                     ELSE daily_save.dir_pattern[1],
                     [field \in {"{date}", "{cik}"} |->
                         IF field = "{date}"
                         THEN strftime(daily.date, daily_save.date_format)
                         ELSE company])),
         format(IF daily_save.file_pattern = None THEN <<"{accession_number}">>
                ELSE daily_save.file_pattern[1],
                [field \in {"{accession_number}"} |-> get_accession_number(link)]))

\* The inputs handed to the fetcher are one (url, path) pair per URL of
\* get_urls, each with the path the patterns give.
PairsFollowPatterns ==
    /\ ret.raised = "none"
    /\ DOMAIN daily_save.inputs = DOMAIN daily.urls
    /\ \A company \in DOMAIN daily.urls :
          /\ Len(daily_save.inputs[company]) = Len(daily.urls[company])
          /\ \A i \in DOMAIN daily.urls[company] :
                daily_save.inputs[company][i] =
                    <<daily.urls[company][i],
                      ExpectedPath(company, daily.urls[company][i])>>

\* C22: DailyFilings.save in per-file mode hands the fetcher exactly one
\* (url, path) pair per URL of get_urls, the path being directory /
\* dir_pattern with {date} and {cik} replaced / file_pattern with
\* {accession_number} replaced by the final path segment of the URL, for
\* every dir_pattern and also with the default patterns, which give
\* directory/YYYYMMDD/cik/accession_number.
C22_OnePairPerUrl ==
    (last_call = "DailyFilings.save" /\ ret.raised # "EDGARQueryError")
    => PairsFollowPatterns

-----------------------------------------------------------------------------
(* Properties of the bulk-archive mode                                     *)

\* The file of the link under the k-th ending is among the extracted files.
Extracted(link, k) ==
    BeforeDot(get_accession_number(link)) \o <<".", possible_endings[k]>>
        \in extracted_files

\* The priority order of the endings: nc, corr04, corr03, corr02, corr01.
EndingPriority == <<"nc", "corr04", "corr03", "corr02", "corr01">>

\* The one move of a link whose first existing ending is the k-th: the file
\* of that ending, to the directory of the link's cik, under the name the
\* file pattern gives.
FirstEndingMoved(moves, link, k) ==
    /\ Len(moves) = 1
    /\ possible_endings[k] = EndingPriority[k]
    /\ \A h \in 1..(k - 1) : ~Extracted(link, h)
    /\ moves[1][3] = join(join(Directory, <<"temp">>),
                          BeforeDot(get_accession_number(link))
                              \o <<".", EndingPriority[k]>>)
    /\ moves[1][1] = get_accession_number(link)

\* C23: in bulk-archive mode, for every URL of get_urls and every set of
\* extracted files, _move_to_dest enqueues at most one move: the file named
\* accession + ending for the first ending of nc, corr04, corr03, corr02,
\* corr01 that exists among the extracted files; when none of the five
\* exists the URL is skipped.
C23_FirstExistingEnding ==
    move_queue # <<>> =>
        /\ DOMAIN move_queue = DOMAIN daily.urls
        /\ \A company \in DOMAIN daily.urls :
              /\ DOMAIN move_queue[company] = DOMAIN daily.urls[company]
              /\ \A i \in DOMAIN daily.urls[company] :
                    IF \E k \in 1..5 : Extracted(daily.urls[company][i], k)
                    THEN \E k \in 1..5 :
                            /\ Extracted(daily.urls[company][i], k)
                            /\ FirstEndingMoved(move_queue[company][i],
                                                daily.urls[company][i], k)
                    ELSE move_queue[company][i] = <<>>

\* two links, one whose nc file is missing and whose corr03 and corr01 files
\* both exist, one with no file at all
C23_Witness ==
    /\ move_queue # <<>>
    /\ \E company \in DOMAIN daily.urls : \E i \in DOMAIN daily.urls[company] :
          /\ ~Extracted(daily.urls[company][i], 1)
          /\ Extracted(daily.urls[company][i], 3)
          /\ Extracted(daily.urls[company][i], 5)
          /\ Len(move_queue[company][i]) = 1
    /\ \E company \in DOMAIN daily.urls : \E i \in DOMAIN daily.urls[company] :
          /\ \A k \in 1..5 : ~Extracted(daily.urls[company][i], k)
          /\ move_queue[company][i] = <<>>

\* A call of save_filings(download_all=True) that has ended, by returning or
\* by raising.
Ended(c) == callers[c].pc \in {"returned", "raised"}

\* No other call works in the target directory.
Alone(c) == \A other \in Callers \ {c} : callers[other].pc = "idle"

\* C24: whenever save_filings(download_all=True) has returned or raised, the
\* extraction directory the call created no longer exists.
C24_TempDirectoryRemoved ==
    \A c \in Callers :
        (Ended(c) /\ Alone(c)) => callers[c].extract_directory \notin DOMAIN fs

\* A call that works in an extraction directory: it has created it and has
\* not yet removed it.
Extracting(c) == callers[c].pc \in {"unzip", "move_to_dest", "rmtree"}

\* C25: two overlapping save_filings(download_all=True) calls work in
\* different extraction directories, and the files a call finds in its
\* directory are its own.
C25_ExclusiveExtractDirectory ==
    \A c \in Callers : \A other \in Callers \ {c} :
        /\ (Extracting(c) /\ Extracting(other))
               => callers[c].extract_directory # callers[other].extract_directory
        /\ other \notin callers[c].walked

\* C26: in bulk-archive mode every item put on the unpack queue or the move
\* queue is eventually completed by a worker and queue.join() returns.
C26_QueueJoined ==
    (pool.pc = "running") ~> (pool.pc = "joined" /\ pool.done = 1..pool.items)

\* The window of the k-th pair of inputs, and the number of windows of
\* length pairs.
WindowOf(k, rate_limit) == ((k - 1) \div rate_limit) + 1

WindowCount(length, rate_limit) == (length + rate_limit - 1) \div rate_limit

\* C27: wait_for_download_async fetches the pairs in the order of inputs,
\* each once, the k-th pair in window ceil(k / rate_limit); when it returns
\* there have been ceil(n / rate_limit) windows and every pair is written.
C27_WindowsPartitionInputs ==
    /\ \A n \in DOMAIN fetcher.issued :
          /\ fetcher.issued[n].pair = n
          /\ fetcher.issued[n].window = WindowOf(n, fetcher.rate_limit)
    /\ fetcher.pc = "returned" =>
          /\ Len(fetcher.issued) = fetcher.inputs
          /\ Len(fetcher.starts) = WindowCount(fetcher.inputs, fetcher.rate_limit)
          /\ fetcher.written = 1..fetcher.inputs

\* A call of three pairs at rate_limit 2 has returned: two windows, the last
\* one shorter.
C27_Witness ==
    /\ fetcher.pc = "returned"
    /\ fetcher.inputs = 3
    /\ fetcher.rate_limit = 2
    /\ Len(fetcher.starts) = 2

\* C28: when a fetch of window N has failed the call has raised, no fetch of
\* a later window has been issued, no pair has been fetched twice, the
\* failed pair is not written and the files of the earlier windows are.
C28_FailureAbortsBatch ==
    fetcher.failed # 0 =>
        LET N == WindowOf(fetcher.failed, fetcher.rate_limit)
        IN  /\ fetcher.pc = "raised"
            /\ Len(fetcher.starts) = N
            /\ \A n \in DOMAIN fetcher.issued : fetcher.issued[n].window <= N
            /\ \A n, k \in DOMAIN fetcher.issued :
                  fetcher.issued[n].pair = fetcher.issued[k].pair => n = k
            /\ fetcher.failed \notin fetcher.written
            /\ 1..((N - 1) * fetcher.rate_limit) \subseteq fetcher.written

\* A fetch of the second window has failed, pairs remaining for a third.
C28_Witness ==
    /\ fetcher.pc = "raised"
    /\ WindowOf(fetcher.failed, fetcher.rate_limit) = 2
    /\ fetcher.inputs > 2 * fetcher.rate_limit
    /\ fetcher.written # {}

\* The n-th fetch issued is the first of its window.
FirstOfWindow(n) ==
    \A k \in DOMAIN fetcher.issued :
        fetcher.issued[k].window = fetcher.issued[n].window => n <= k

\* C29 as stated: the first fetch of window N+1 starts at least one second
\* after the first fetch of window N started, and any rate_limit + 1 fetches
\* are started at least one second apart.
C29_FirstFetchesOneSecondApart ==
    /\ \A n, k \in DOMAIN fetcher.issued :
          (/\ FirstOfWindow(n)
           /\ FirstOfWindow(k)
           /\ fetcher.issued[k].window = fetcher.issued[n].window + 1)
              => fetcher.issued[k].at - fetcher.issued[n].at >= TicksPerSecond
    /\ \A n, k \in DOMAIN fetcher.issued :
          k >= n + fetcher.rate_limit
              => fetcher.issued[k].at - fetcher.issued[n].at >= TicksPerSecond

\* C29 amended: the reading of the clock that opens window N+1 is at least
\* one second after the reading that opened window N, and every fetch of
\* window N+1 starts at least one second after that reading of window N.
C29_WindowStartsOneSecondApart ==
    /\ \A w \in 1..(Len(fetcher.starts) - 1) :
          fetcher.starts[w + 1] - fetcher.starts[w] >= TicksPerSecond
    /\ \A n \in DOMAIN fetcher.issued :
          fetcher.issued[n].window > 1
              => fetcher.issued[n].at
                    >= fetcher.starts[fetcher.issued[n].window - 1] + TicksPerSecond

\* Two windows whose first fetches started less than one second apart: the
\* clock moved between start = time.monotonic() and the first fetch of the
\* earlier window.
C29_Witness ==
    \E n, k \in DOMAIN fetcher.issued :
        /\ FirstOfWindow(n)
        /\ FirstOfWindow(k)
        /\ fetcher.issued[k].window = fetcher.issued[n].window + 1
        /\ fetcher.issued[k].at - fetcher.issued[n].at < TicksPerSecond
        /\ fetcher.issued[n].at > fetcher.starts[fetcher.issued[n].window]

\* C30: the configuration a NetworkClient stores satisfies
\* 0 < rate_limit <= 10, batch_size an integer >= 1, retry_count an integer
\* >= 0 and pause >= 0; an assignment that raises leaves the stored values
\* as they were, and nothing about the configuration is raised at request
\* time.
C30_ConfigurationValid ==
    client.constructed =>
        /\ greater(client.rate_limit, 0) /\ ~greater(client.rate_limit, 10)
        /\ isinstance_int(client.batch_size) /\ ~less(client.batch_size, 1)
        /\ isinstance_int(client.retry_count) /\ ~less(client.retry_count, 0)
        /\ ~client.pause.nan /\ ~less(client.pause, 0)
        /\ (client.raised # "none" /\ client.before # <<>>)
              => client.before = <<Stored(client)>>
        /\ client.raised \in {"none", "TypeError", "ValueError"}
        /\ client.request_raised = "none"

\* C31: get_response issues a further request only after an invalid
\* response: every answer but the last one of a call was invalid.
C31_StopsAtFirstValid ==
    \A k \in 1..(Len(getter.answers) - 1) : _validate_response(getter.answers[k])

\* C32: get_response issues at most retry_count + 1 requests; when it has
\* raised EDGARQueryError it has made retry_count + 1 attempts and
\* self.response is what it was before the call.
C32_BoundedRetries ==
    /\ Len(getter.answers) <= getter.retry_count + 1
    /\ getter.raised = "EDGARQueryError" =>
          /\ Len(getter.answers) = getter.retry_count + 1
          /\ getter.self_response = getter.before

\* A call with retries has raised on a client that holds the response of an
\* earlier call.
C32_Witness ==
    /\ getter.pc = "raised"
    /\ getter.retry_count >= 1
    /\ getter.before # None
    /\ \E k \in DOMAIN getter.answers : ~_validate_response(getter.answers[k])

\* The constructions with a date that is not a datetime.
BadDateCalls == {InitCall[t] : t \in {"float", "int", "str"}}

C34_ParamsFollowDates ==
    filing # NoFiling =>
        /\ filing.start_date # None =>
              /\ sanitize_date(filing.start_date[1]).raised = "none"
              /\ filing.datea = sanitize_date(filing.start_date[1]).value
        /\ sanitize_date(filing.end_date[1]).raised = "none"
        /\ filing.dateb = sanitize_date(filing.end_date[1]).value

\* C35: every key of the mapping get_ciks returns is one of the lookup
\* terms, and every value is a string of 10 characters, all digits.
C35_CiksAreTenDigits ==
    (lookup # NoLookup /\ lookup.ciks # None) =>
        \A term \in DOMAIN lookup.ciks[1] :
            /\ term \in lookup.lookups
            /\ _validate_cik(<<lookup.ciks[1][term]>>)

\* The iteration at hand is the one of a range that ends before the next
\* quarter boundary with more than balancing_point days left.
TailQuarterCase ==
    /\ loop.pc = "while"
    /\ loop.st.current_date <= loop.end_date
    /\ NextStartQuarterDate(loop.st.current_date) - loop.st.current_date
          > loop.end_date - loop.st.current_date
    /\ loop.end_date - loop.st.current_date > loop.balancing_point

\* C36: the iteration of the tail case adds exactly one quarter triple and no
\* day entry, and leaves current_date past end_date, so that the loop ends
\* without adding anything further.
C36_TailTripleEndsLoop ==
    [][(TailQuarterCase /\ loop'.iterations = loop.iterations + 1) =>
          /\ Len(loop'.st.quarterly_date_list) = Len(loop.st.quarterly_date_list) + 1
          /\ loop'.st.daily_date_list = loop.st.daily_date_list
          /\ loop'.st.current_date > loop.end_date]_vars

\* C38: the main loop of _recompute ends: every iteration moves current_date
\* forward, the triples and day entries never outnumber the days of the range
\* plus one, and the loop is left with current_date past end_date.
C38_LoopTerminates ==
    /\ [][loop'.iterations = loop.iterations + 1
             => loop'.st.current_date > loop.st.current_date]_vars
    /\ [](Len(loop.st.quarterly_date_list) + Len(loop.st.daily_date_list)
             <= loop.end_date - loop.start_date + 2)
    /\ [](loop.pc = "done" => loop.st.current_date > loop.end_date)
    /\ (loop.pc = "while") ~> (loop.pc = "done")

\* The loop has ended after a tail triple and a day entry for end_date, three
\* iterations in all.
C38_Witness ==
    /\ loop.pc = "done"
    /\ loop.iterations >= 3
    /\ loop.st.daily_date_list # <<>>
    /\ loop.st.quarterly_date_list # <<>>

\* The quarters a range touches, as (year, quarter) pairs.
QuartersSpanned(sd, ed) ==
    {<<YearOf(d), get_quarter(d)>> : d \in sd..ed}

\* C40: recompute of the simpler planner leaves, for every start_date <=
\* end_date, a plan whose master_date_list entries are (year, quarter) pairs
\* with quarter in 1..4 among the quarters the range spans and whose
\* daily_date_list dates lie in start_date .. end_date, ranges that start in
\* the fourth quarter or lie inside one quarter included.
C40_SimplePlanInRange ==
    simple # NoSimple =>
        /\ simple.raised = "none"
        /\ \A i \in DOMAIN simple.master_date_list :
              /\ simple.master_date_list[i][2] \in 1..4
              /\ simple.master_date_list[i]
                    \in QuartersSpanned(simple.start_date, simple.end_date)
        /\ \A i \in DOMAIN simple.daily_date_list :
              simple.daily_date_list[i] \in simple.start_date .. simple.end_date

\* The lines of the text that consist of exactly five pipe-delimited fields.
FiveFieldLines(idx_file) ==
    {j \in DOMAIN idx_file : Len(split(idx_file[j], "|")) = 5}

\* C37: get_filings_dict raises on no index text; a line that does not
\* consist of exactly five pipe-delimited fields adds no entry, and every
\* FilingEntry of the mapping has its six fields populated.
C37_TolerantParsing ==
    last_call = "DailyFilings.get_filings_dict" =>
        /\ ret.raised = "none"
        /\ TotalLen(ret.value) <= Cardinality(FiveFieldLines(IdxFile))
        /\ \A cik \in DOMAIN ret.value :
              \A i \in DOMAIN ret.value[cik] :
                  \A k \in DOMAIN FilingEntryFields :
                      Len(ret.value[cik][i][FilingEntryFields[k]]) > 0

\* C39: at every moment of wait_for_download_async at most rate_limit
\* fetches are in flight, and when a fetch of a window has started every
\* pair of the earlier windows has been fetched and its file written.
C39_WindowIsBarrier ==
    /\ Cardinality(fetcher.pending) <= fetcher.rate_limit
    /\ \A n \in DOMAIN fetcher.issued :
          \A k \in 1..fetcher.inputs :
              WindowOf(k, fetcher.rate_limit) < fetcher.issued[n].window
                  => k \in fetcher.written /\ k \notin fetcher.pending

\* The window of two fetches has been written and the one fetch of the next
\* window is in flight.
C39_Witness ==
    /\ fetcher.rate_limit = 2
    /\ fetcher.written = {1, 2}
    /\ fetcher.pending = {3}

====
